---- MODULE Spec2Model ----
(***************************************************************************)
(* Model of the plan executor of core/executor.py (PlanExecutor,           *)
(* SafeEvaluator) together with ExecutionState.add_agent_result of         *)
(* core/state_models.py.  A plan is a tree of nodes; the executor walks it *)
(* on a main thread and, inside a parallel node, on one pool thread per    *)
(* child.  Every thread carries an explicit stack of frames, one frame per *)
(* active _run_sequential / _run_branch / _run_loop / _run_parallel /      *)
(* _run_agent call.                                                        *)
(***************************************************************************)
EXTENDS Integers, Sequences, FiniteSets, TLC

(***************************************************************************)
(* Bounds of the model                                                     *)
(***************************************************************************)
\* number of distinct result strings a handler may return
NumResults == 2
\* largest max_iters given to a loop node of the plan catalogue
MaxN == 3

(***************************************************************************)
(* Python values: None, str, int, dict                                     *)
(***************************************************************************)
NoneV == [t |-> "none", v |-> ""]
StrV(s) == [t |-> "str", v |-> s]
IntV(i) == [t |-> "int", v |-> i]
EmptyFn == [k \in {} |-> NoneV]
DictV(f) == [t |-> "dict", v |-> f]

ResultNames == <<"r1", "r2", "r3", "r4">>
\* the strings a handler may return
Results == {StrV(ResultNames[i]) : i \in 1..NumResults}

\* an absent node id (node.get("id") is None or empty: both are falsy)
NoId == ""

(***************************************************************************)
(* Conditions of the expression language, as evaluated by                  *)
(* SafeEvaluator.eval: a constant, a comparison of a path with a literal,  *)
(* or an expression whose evaluation raises.                               *)
(***************************************************************************)
NoCond == [op |-> "none", path |-> <<>>, val |-> NoneV]
CTrue == [op |-> "const", path |-> <<>>, val |-> IntV(1)]
CFalse == [op |-> "const", path |-> <<>>, val |-> IntV(0)]
CError == [op |-> "error", path |-> <<>>, val |-> NoneV]
\* a condition that is not a string (a JSON true, a number, a list)
CNonStr == [op |-> "nonstr", path |-> <<>>, val |-> NoneV]
CEq(p, lit) == [op |-> "eq", path |-> p, val |-> lit]
CNe(p, lit) == [op |-> "ne", path |-> p, val |-> lit]

(***************************************************************************)
(* Strings of a plan document that TEMPLATE_RE can match in: a sequence of *)
(* literal pieces and of placeholders "{{" lead path trail "}}", where     *)
(* lead and trail count the blanks written inside the braces               *)
(***************************************************************************)
Lit(s) == [ph |-> FALSE, text |-> s, path |-> <<>>, lead |-> 0, trail |-> 0]
Ph(path, lead, trail) == [ph |-> TRUE, text |-> "", path |-> path, lead |-> lead, trail |-> trail]
TplV(parts) == [t |-> "tpl", v |-> parts]

(***************************************************************************)
(* Plan nodes.  Every node is a record with all the keys the executor      *)
(* reads; a key the plan document does not carry holds its default.        *)
(***************************************************************************)
NoLoop ==
    [present |-> FALSE, condition |-> NoCond, do_while |-> FALSE,
     has_max_iters |-> FALSE, max_iters |-> 0]
\* has_cases: the "cases" of the branch dict is a list
NoBranch ==
    [present |-> FALSE, has_cases |-> FALSE, cases |-> <<>>, has_else |-> FALSE, else |-> <<>>]
\* node.get("parameters", {})
NoParameters == DictV(EmptyFn)
BaseNode == [id |-> NoId, type |-> "", tasks |-> <<>>, agent_id |-> "",
             loop |-> NoLoop, branch |-> NoBranch, branch_key |-> <<>>, cases |-> <<>>,
             parameters |-> NoParameters]

Leaf(id, agent) == [BaseNode EXCEPT !.id = id, !.type = "agent_call", !.agent_id = agent]
\* an agent_call whose "parameters" mapping is given
LeafP(id, agent, params) == [Leaf(id, agent) EXCEPT !.parameters = params]
SeqN(id, tasks) == [BaseNode EXCEPT !.id = id, !.type = "sequential", !.tasks = tasks]
ParN(id, tasks) == [BaseNode EXCEPT !.id = id, !.type = "parallel", !.tasks = tasks]
OtherN(id) == [BaseNode EXCEPT !.id = id, !.type = "noop"]
LoopN(id, cond, dw, n, tasks) ==
    [BaseNode EXCEPT !.id = id, !.tasks = tasks,
        !.loop = [present |-> TRUE, condition |-> cond, do_while |-> dw,
                  has_max_iters |-> TRUE, max_iters |-> n]]
\* a loop whose configuration carries no "max_iters"
LoopDefaultN(id, cond, dw, tasks) ==
    [BaseNode EXCEPT !.id = id, !.tasks = tasks,
        !.loop = [present |-> TRUE, condition |-> cond, do_while |-> dw,
                  has_max_iters |-> FALSE, max_iters |-> 0]]
Case(when, tasks) == [when |-> when, tasks |-> tasks]
BranchN(id, cases, has_else, else) ==
    [BaseNode EXCEPT !.id = id,
        !.branch = [present |-> TRUE, has_cases |-> TRUE, cases |-> cases,
                    has_else |-> has_else, else |-> else]]
\* a "branch" dict without a case list, on a node without "branch_key"
BranchNoCasesN(id) == [BaseNode EXCEPT !.id = id, !.branch = [NoBranch EXCEPT !.present = TRUE]]
KCase(label, tasks) == [label |-> label, tasks |-> tasks]
KeyBranchN(id, key, cases) == [BaseNode EXCEPT !.id = id, !.branch_key = key, !.cases = cases]

(***************************************************************************)
(* State of one PlanExecutor and of the ExecutionState it was built with   *)
(***************************************************************************)
VARIABLES
    plan,                  \* the plan document handed to execute: [root, nodes]
    cfg,                   \* max_workers, max_iters, global_step_cap of __init__
    pc,                    \* position of execute: "init", "running", "returned", "raised"
    error,                 \* the exception execute raised, "" while none
    final_output,          \* result["final_output"]
    th,                    \* threads: the main thread 0 and one per parallel child
    fut,                   \* futures of the worker pools, by child node
    steps_outputs,         \* self.steps_outputs
    trace,                 \* self.trace
    total_steps_executed,  \* self.total_steps_executed
    agent_results,         \* state.agent_results
    current_step,          \* state.current_step
    metadata,              \* state.metadata
    calls,                 \* number of handler invocations (agent.run) begun
    handler_log            \* what each handler invocation returned, in order

vars == <<plan, cfg, pc, error, final_output, th, fut, steps_outputs, trace,
          total_steps_executed, agent_results, current_step, metadata, calls,
          handler_log>>

Nodes == plan.nodes
NodeIds == 1..Len(plan.nodes)
MainThread == 0

(***************************************************************************)
(* SafeEvaluator                                                           *)
(***************************************************************************)
\* the ExecutionState as get_value sees it (attribute access by name)
StateObj ==
    DictV("metadata" :> DictV(metadata) @@ "current_step" :> IntV(current_step))

RECURSIVE _get_by_path(_, _)
_get_by_path(cur, parts) ==
    IF parts = <<>> THEN cur
    ELSE IF cur.t = "none" THEN NoneV
    ELSE IF cur.t = "dict"
         THEN _get_by_path(IF Head(parts) \in DOMAIN cur.v THEN cur.v[Head(parts)] ELSE NoneV,
                           Tail(parts))
         \* getattr(cur, p, None) on a str or an int
         ELSE _get_by_path(NoneV, Tail(parts))

RECURSIVE StepsWalk(_, _)
StepsWalk(current, parts) ==
    IF parts = <<>> THEN current
    ELSE IF Head(parts) = "output" THEN StepsWalk(current, Tail(parts))
    ELSE IF current.t = "dict"
         THEN StepsWalk(IF Head(parts) \in DOMAIN current.v THEN current.v[Head(parts)] ELSE NoneV,
                        Tail(parts))
         \* cannot traverse deeper: the value held so far is returned
         ELSE current

get_value(path) ==
    IF path # <<>> /\ Head(path) = "state" THEN _get_by_path(StateObj, Tail(path))
    ELSE IF path # <<>> /\ Head(path) = "steps"
         THEN IF Tail(path) = <<>> THEN NoneV
              ELSE StepsWalk(IF path[2] \in DOMAIN steps_outputs THEN steps_outputs[path[2]] ELSE NoneV,
                             Tail(Tail(path)))
    ELSE NoneV

\* Python's == on the modelled values
ValEq(a, b) == a.t = b.t /\ a.v = b.v

\* SafeEvaluator.eval, line 92: re.sub runs before the try block and raises
\* TypeError when the expression is not a string
EvalRaises(c) == c.op = "nonstr"
TypeErrorEval == "TypeError: expected string or bytes-like object"

\* SafeEvaluator.eval: any error while evaluating the tokenized text yields False
Eval(c) ==
    CASE c.op = "const" -> c.val.v = 1
      [] c.op = "eq" -> ValEq(get_value(c.path), c.val)
      [] c.op = "ne" -> ~ValEq(get_value(c.path), c.val)
      [] OTHER -> FALSE

(***************************************************************************)
(* TemplateResolver                                                        *)
(***************************************************************************)
RECURSIVE Blanks(_)
Blanks(n) == IF n = 0 THEN "" ELSE " " \o Blanks(n - 1)

\* group(1) of TEMPLATE_RE: \s* takes the blanks before the path, the greedy
\* [^}]+ takes the path and every blank after it
group1(p) ==
    IF p.trail = 0 \/ p.path = <<>> THEN p.path
    ELSE [p.path EXCEPT ![Len(p.path)] = @ \o Blanks(p.trail)]

\* insertion order of the keys of the dicts get_value can reach
KeyOrder == <<"metadata", "current_step", "x", "last_step", "agent", "result", "parsed">>

RECURSIVE json_dumps(_)
RECURSIVE json_items(_, _, _)
json_items(f, keys, first) ==
    IF keys = <<>> THEN ""
    ELSE IF Head(keys) \notin DOMAIN f THEN json_items(f, Tail(keys), first)
    ELSE (IF first THEN "" ELSE ", ") \o "\"" \o Head(keys) \o "\": "
            \o json_dumps(f[Head(keys)]) \o json_items(f, Tail(keys), FALSE)
json_dumps(x) ==
    CASE x.t = "none" -> "null"
      [] x.t = "str" -> "\"" \o x.v \o "\""
      [] x.t = "int" -> ToString(x.v)
      [] x.t = "dict" -> "{" \o json_items(x.v, KeyOrder, TRUE) \o "}"

\* str(val) of a value that is not a dict or list
str(val) ==
    CASE val.t = "none" -> "None"
      [] val.t = "str" -> val.v
      [] val.t = "int" -> ToString(val.v)

\* repl of _render_str
repl(p) ==
    LET val == get_value(group1(p))
    IN  IF val.t = "dict" THEN json_dumps(val) ELSE str(val)

\* TEMPLATE_RE.sub(repl, s)
RECURSIVE sub(_)
sub(parts) ==
    IF parts = <<>> THEN ""
    ELSE (IF Head(parts).ph THEN repl(Head(parts)) ELSE Head(parts).text) \o sub(Tail(parts))

\* re.fullmatch of the placeholder pattern on the whole string
m_full(parts) == Len(parts) = 1 /\ parts[1].ph

_render_str(s) ==
    IF m_full(s.v) THEN get_value(group1(s.v[1])) ELSE StrV(sub(s.v))

RECURSIVE render(_)
render(value) ==
    IF value.t = "tpl" THEN _render_str(value)
    ELSE IF value.t = "dict" THEN DictV([k \in DOMAIN value.v |-> render(value.v[k])])
    ELSE value

(***************************************************************************)
(* serialize of _run_loop: json.dumps(x, sort_keys=True)                   *)
(***************************************************************************)
NoSer == [j |-> "none", s |-> "", o |-> EmptyFn]
IntText(i) == ToString(i)

RECURSIVE serialize(_)
serialize(x) ==
    CASE x.t = "none" -> [j |-> "lit", s |-> "null", o |-> EmptyFn]
      [] x.t = "str" -> [j |-> "lit", s |-> "\"" \o x.v \o "\"", o |-> EmptyFn]
      [] x.t = "int" -> [j |-> "lit", s |-> IntText(x.v), o |-> EmptyFn]
      [] x.t = "dict" -> [j |-> "obj", s |-> "", o |-> [k \in DOMAIN x.v |-> serialize(x.v[k])]]

(***************************************************************************)
(* PlanExecutor._validate_ids_unique: walks node["tasks"] only             *)
(***************************************************************************)
RECURSIVE ValidateNode(_, _, _)
RECURSIVE ValidateList(_, _, _)
\* the result is [ok, seen]: ok is FALSE when PlanValidationError is raised
ValidateNode(nodes, n, seen) ==
    LET node_id == nodes[n].id IN
    IF node_id # NoId /\ node_id \in seen THEN [ok |-> FALSE, seen |-> seen]
    ELSE ValidateList(nodes, nodes[n].tasks,
                      IF node_id # NoId THEN seen \cup {node_id} ELSE seen)
ValidateList(nodes, list, seen) ==
    IF list = <<>> THEN [ok |-> TRUE, seen |-> seen]
    ELSE LET r == ValidateNode(nodes, Head(list), seen) IN
         IF r.ok THEN ValidateList(nodes, Tail(list), r.seen) ELSE r

_validate_ids_unique(p) == ValidateNode(p.nodes, p.root, {}).ok

(***************************************************************************)
(* Threads, frames, trace events                                           *)
(***************************************************************************)
NoMsg == [kind |-> "", id |-> NoId]
\* the message of a HITL escalation: which escalation, and the id it quotes
Msg(kind, id) == [kind |-> kind, id |-> id]
\* a trace event: {"event": e, "id": id, ...}; n is the event's "iter"
Ev(e, id, kind, ref, n) ==
    [event |-> e, id |-> id, detail |-> [kind |-> kind, id |-> ref, n |-> n], params |-> NoneV]
\* mutant: the event carries another message than the history entry
HitlEvBlank(m) == Ev("hitl", NoId, "", NoId, 0)
HitlEv(m) == Ev("hitl", NoId, m.kind, m.id, 0)

IdleThread ==
    [mode |-> "idle", node |-> 0, val |-> NoneV, exc |-> "", msg |-> NoMsg,
     cont |-> "", stack |-> <<>>]
NoFrame ==
    [k |-> "", node |-> 0, tasks |-> <<>>, i |-> 1, res |-> NoneV, phase |-> "",
     matches |-> {}, last_serialized |-> NoSer, iters |-> 0, iter_index |-> 0,
     tmp |-> 0, step_id |-> NoId, results |-> EmptyFn, collected |-> {}]
NoFut == [st |-> "none", val |-> NoneV, exc |-> "", pool |-> 0]

Push(stack, f) == Append(stack, f)
Pop(stack) == SubSeq(stack, 1, Len(stack) - 1)
Top(t) == th[t].stack[Len(th[t].stack)]
SetTop(stack, f) == [stack EXCEPT ![Len(stack)] = f]

\* the thread is about to call _run_node(n)
Calling(stack, n) == [IdleThread EXCEPT !.mode = "call", !.node = n, !.stack = stack]
\* the thread continues in its top frame
Framing(stack) == [IdleThread EXCEPT !.mode = "frame", !.stack = stack]
\* mutant: the first child's result is kept
AssignResultKeepFirst(frame, v) ==
    IF frame.res = NoneV THEN [frame EXCEPT !.res = v] ELSE frame
\* "res = self._run_node(child)" in the caller's frame
AssignResult(frame, v) == [frame EXCEPT !.res = v]
\* a call returned v to the frame below it, or ended the thread's work
Returning(stack, v) ==
    IF stack = <<>> THEN [IdleThread EXCEPT !.mode = "ret", !.val = v]
    ELSE Framing(SetTop(stack, AssignResult(stack[Len(stack)], v)))
\* an exception leaves every frame of the thread: no frame catches it
Raising(e) == [IdleThread EXCEPT !.mode = "exc", !.exc = e]
\* mutant: every escalation ends in a raise
EscalatingToRaise(stack, m, cont, e) ==
    [IdleThread EXCEPT !.mode = "hitl", !.msg = m, !.cont = "raise",
                       !.exc = IF e = "" THEN "RuntimeError: escalated" ELSE e,
                       !.stack = stack]
\* inside _route_to_human_and_stop, between add_agent_result and trace.append
Escalating(stack, m, cont, e) ==
    [IdleThread EXCEPT !.mode = "hitl", !.msg = m, !.cont = cont, !.exc = e, !.stack = stack]

\* mutant: the store under the node's own id is left out
StoreNothing(outputs, step_id, res) == outputs
\* "if step_id: self.steps_outputs[step_id] = res"
Store(outputs, step_id, res) ==
    IF step_id # NoId THEN (step_id :> res) @@ outputs ELSE outputs

InFrame(t, k) == th[t].mode = "frame" /\ th[t].stack # <<>> /\ Top(t).k = k

\* mutant: the escalation leaves the history alone
add_agent_resultSkipped(m) == UNCHANGED <<agent_results, current_step>>
\* ExecutionState.add_agent_result(agent_name="HumanAssistant", ..., status=FAILED)
add_agent_result(m) ==
    /\ agent_results' = Append(agent_results,
            [agent_name |-> "HumanAssistant", status |-> "failed", msg |-> m])
    /\ current_step' = current_step + 1

(***************************************************************************)
(* PlanExecutor._resolve_agent                                             *)
(***************************************************************************)
mapping ==
    [talk_to_document |-> "TalktoDocument",
     playbook_generator |-> "PlaybookBuilder",
     service_level_agent |-> "ServiceLevelComplianceEvaluator",
     obligations_manager |-> "ObligationsManager",
     report_synthesizer |-> "MediatorAgent",
     human_assistant |-> "HumanAssistant"]
\* the handlers scripts/run_plan.py registers
Registered ==
    {"TalktoDocument", "PlaybookBuilder", "ServiceLevelComplianceEvaluator",
     "MediatorAgent", "ObligationsManager", "HumanAssistant"}
\* TRUE when a handler is found, FALSE when _resolve_agent returns None
_resolve_agent(agent_id) ==
    /\ agent_id \in DOMAIN mapping
    /\ mapping[agent_id] \in Registered

(***************************************************************************)
(* execute                                                                 *)
(***************************************************************************)
ExecuteInvalid ==
    /\ pc = "init"
    /\ \/ plan.root = 0
       \/ plan.root # 0 /\ ~_validate_ids_unique(plan)
    /\ pc' = "raised"
    /\ error' = "PlanValidationError"
    /\ UNCHANGED <<plan, cfg, final_output, th, fut, steps_outputs, trace,
                   total_steps_executed, agent_results, current_step, metadata, calls,
                   handler_log>>

ExecuteStart ==
    /\ pc = "init"
    /\ plan.root # 0
    /\ _validate_ids_unique(plan)
    /\ trace' = Append(trace, Ev("start_plan", Nodes[plan.root].id, "", NoId, 0))
    /\ th' = [th EXCEPT ![MainThread] = Calling(<<>>, plan.root)]
    /\ pc' = "running"
    /\ UNCHANGED <<plan, cfg, error, final_output, fut, steps_outputs,
                   total_steps_executed, agent_results, current_step, metadata, calls,
                   handler_log>>

ExecuteReturn ==
    /\ pc = "running"
    /\ th[MainThread].mode = "ret"
    /\ trace' = Append(trace, Ev("end_plan", Nodes[plan.root].id, "", NoId, 0))
    /\ final_output' = th[MainThread].val
    /\ pc' = "returned"
    /\ th' = [th EXCEPT ![MainThread] = IdleThread]
    /\ UNCHANGED <<plan, cfg, error, fut, steps_outputs,
                   total_steps_executed, agent_results, current_step, metadata, calls,
                   handler_log>>

ExecuteRaise ==
    /\ pc = "running"
    /\ th[MainThread].mode = "exc"
    /\ error' = th[MainThread].exc
    /\ pc' = "raised"
    /\ th' = [th EXCEPT ![MainThread] = IdleThread]
    /\ UNCHANGED <<plan, cfg, final_output, fut, steps_outputs, trace,
                   total_steps_executed, agent_results, current_step, metadata, calls,
                   handler_log>>

(***************************************************************************)
(* _run_node: the step cap, then dispatch on the node's keys               *)
(***************************************************************************)
\* which branch of _run_node a node takes
NodeKind(node) ==
    IF node.loop.present THEN "loop"
    ELSE IF node.branch.present \/ node.branch_key # <<>> THEN "branch"
    ELSE IF node.type \in {"sequential", "parallel", "agent_call"} THEN node.type
    ELSE "noop"

CapReached == total_steps_executed >= cfg.global_step_cap

Dispatching(t, kind) ==
    /\ pc = "running"
    /\ th[t].mode = "call"
    /\ ~CapReached
    /\ NodeKind(Nodes[th[t].node]) = kind

RunNodeCap(t) ==
    /\ pc = "running"
    /\ th[t].mode = "call"
    /\ CapReached
    /\ th' = [th EXCEPT ![t] = Raising("RuntimeError: Global step cap exceeded")]
    /\ UNCHANGED <<plan, cfg, pc, error, final_output, fut, steps_outputs, trace,
                   total_steps_executed, agent_results, current_step, metadata, calls,
                   handler_log>>

RunNodeNoop(t) ==
    /\ Dispatching(t, "noop")
    /\ th' = [th EXCEPT ![t] = Returning(th[t].stack, NoneV)]
    /\ UNCHANGED <<plan, cfg, pc, error, final_output, fut, steps_outputs, trace,
                   total_steps_executed, agent_results, current_step, metadata, calls,
                   handler_log>>

\* mutant: the list is walked from its end
NextChildReversed(f) == f.tasks[Len(f.tasks) + 1 - f.i]
\* "for child in tasks": the child the loop over the list runs next
NextChild(f) == f.tasks[f.i]

(***************************************************************************)
(* _run_sequential                                                         *)
(***************************************************************************)
RunNodeSequential(t) ==
    /\ Dispatching(t, "sequential")
    /\ th' = [th EXCEPT ![t] = Framing(Push(th[t].stack,
                [NoFrame EXCEPT !.k = "seq", !.node = th[t].node,
                                !.tasks = Nodes[th[t].node].tasks]))]
    /\ UNCHANGED <<plan, cfg, pc, error, final_output, fut, steps_outputs, trace,
                   total_steps_executed, agent_results, current_step, metadata, calls,
                   handler_log>>

\* one turn of "for child in tasks: res = self._run_node(child)", or "return res"
SequentialStep(t) ==
    /\ InFrame(t, "seq")
    /\ LET f == Top(t) IN
       th' = [th EXCEPT ![t] =
                IF f.i <= Len(f.tasks)
                THEN Calling(SetTop(th[t].stack, [f EXCEPT !.i = f.i + 1]), NextChild(f))
                ELSE Returning(Pop(th[t].stack), f.res)]
    /\ UNCHANGED <<plan, cfg, pc, error, final_output, fut, steps_outputs, trace,
                   total_steps_executed, agent_results, current_step, metadata, calls,
                   handler_log>>

(***************************************************************************)
(* _run_branch                                                             *)
(***************************************************************************)
\* the cases whose "when" is given and evaluates to true (the list "matches")
Matches(cases) ==
    {k \in 1..Len(cases) : cases[k].when.op # "none" /\ Eval(cases[k].when)}

Selection(act, tasks, ev, kind, m) ==
    [act |-> act, tasks |-> tasks, ev |-> ev, kind |-> kind, matches |-> m]

\* mutant: with several matches the first one wins
ExplicitSelectFirstMatch(b) ==
    LET m == Matches(b.cases) IN
    IF Cardinality(m) >= 1
    THEN Selection("run", b.cases[CHOOSE k \in m : \A j \in m : k <= j].tasks, TRUE, "explicit", m)
    ELSE IF b.else # <<>>
         THEN Selection("run", b.else, FALSE, "", m)
         ELSE Selection("hitl", <<>>, FALSE, "branch_no_match", m)
\* mutant: on a single match the first case is run, whichever matched
ExplicitSelectFirstCase(b) ==
    LET m == Matches(b.cases) IN
    IF Cardinality(m) = 1
    THEN Selection("run", b.cases[1].tasks, TRUE, "explicit", m)
    ELSE IF Cardinality(m) = 0
         THEN IF b.else # <<>>
              THEN Selection("run", b.else, FALSE, "", m)
              ELSE Selection("hitl", <<>>, FALSE, "branch_no_match", m)
         ELSE Selection("hitl", <<>>, FALSE, "branch_multiple", m)
\* explicit form: what _run_branch decides from the number of matches
ExplicitSelect(b) ==
    LET m == Matches(b.cases) IN
    IF Cardinality(m) = 1
    THEN Selection("run", b.cases[CHOOSE k \in m : TRUE].tasks, TRUE, "explicit", m)
    ELSE IF Cardinality(m) = 0
         THEN IF b.else # <<>>
              THEN Selection("run", b.else, FALSE, "", m)
              ELSE Selection("hitl", <<>>, FALSE, "branch_no_match", m)
         ELSE Selection("hitl", <<>>, FALSE, "branch_multiple", m)

\* key form: the dispatch key is read below "state." unless it names a root
KeyPath(key) == IF Head(key) \in {"state", "steps"} THEN key ELSE <<"state">> \o key

KeySelect(node) ==
    IF node.branch_key = <<>>
    THEN Selection("hitl", <<>>, FALSE, "branch_invalid", {})
    ELSE LET val == get_value(KeyPath(node.branch_key))
             hit == {k \in 1..Len(node.cases) : ValEq(node.cases[k].label, val)}
             els == {k \in 1..Len(node.cases) : ValEq(node.cases[k].label, StrV("else"))}
         IN  IF val.t = "dict"
             \* "val in cases" hashes val: TypeError for a dict
             THEN Selection("raise", <<>>, FALSE, "TypeError: unhashable type", {})
             ELSE IF hit # {}
                  THEN Selection("run", node.cases[CHOOSE k \in hit : TRUE].tasks, TRUE, "key", hit)
                  ELSE IF els # {}
                       THEN Selection("run", node.cases[CHOOSE k \in els : TRUE].tasks, TRUE, "key", {})
                       ELSE Selection("hitl", <<>>, FALSE, "branch_no_case", {})

BranchSelect(node) ==
    IF node.branch.present /\ node.branch.has_cases
    THEN ExplicitSelect(node.branch)
    ELSE KeySelect(node)

RunNodeBranch(t) ==
    /\ Dispatching(t, "branch")
    /\ LET n == th[t].node
           node == Nodes[n]
           sel == BranchSelect(node)
           entered == Append(trace, Ev("branch_enter", node.id, "", NoId, 0))
       IN  /\ trace' = IF sel.ev
                       THEN Append(entered, Ev("branch_select", node.id, sel.kind, NoId, 0))
                       ELSE entered
           /\ CASE sel.act = "run" ->
                     /\ th' = [th EXCEPT ![t] = Framing(Push(th[t].stack,
                                [NoFrame EXCEPT !.k = "branch", !.node = n,
                                                !.tasks = sel.tasks, !.matches = sel.matches]))]
                     /\ UNCHANGED <<agent_results, current_step>>
                [] sel.act = "hitl" ->
                     /\ add_agent_result(Msg(sel.kind, node.id))
                     /\ th' = [th EXCEPT ![t] =
                                Escalating(th[t].stack, Msg(sel.kind, node.id), "return_none", "")]
                [] OTHER ->
                     /\ th' = [th EXCEPT ![t] = Raising(sel.kind)]
                     /\ UNCHANGED <<agent_results, current_step>>
    /\ UNCHANGED <<plan, cfg, pc, error, final_output, fut, steps_outputs,
                   total_steps_executed, metadata, calls,
                   handler_log>>

\* "for child in selected_tasks: res = self._run_node(child)", then the store
BranchStep(t) ==
    /\ InFrame(t, "branch")
    /\ LET f == Top(t)
           step_id == Nodes[f.node].id
       IN  IF f.i <= Len(f.tasks)
           THEN /\ th' = [th EXCEPT ![t] =
                            Calling(SetTop(th[t].stack, [f EXCEPT !.i = f.i + 1]), NextChild(f))]
                /\ UNCHANGED <<steps_outputs, trace>>
           ELSE /\ steps_outputs' = Store(steps_outputs, step_id, f.res)
                /\ trace' = Append(trace, Ev("branch_exit", step_id, "", NoId, 0))
                /\ th' = [th EXCEPT ![t] = Returning(Pop(th[t].stack), f.res)]
    /\ UNCHANGED <<plan, cfg, pc, error, final_output, fut,
                   total_steps_executed, agent_results, current_step, metadata, calls,
                   handler_log>>

(***************************************************************************)
(* _run_loop                                                               *)
(***************************************************************************)
\* mutant: the plan's own bound is ignored
LoopMaxItersDefault(node) == cfg.max_iters
\* mutant: the cap is met one iteration late
LoopMaxItersPlusOne(node) ==
    (IF node.loop.has_max_iters THEN node.loop.max_iters ELSE cfg.max_iters) + 1
LoopMaxIters(node) ==
    IF node.loop.has_max_iters THEN node.loop.max_iters ELSE cfg.max_iters

RunNodeLoop(t) ==
    /\ Dispatching(t, "loop")
    /\ LET n == th[t].node IN
       /\ trace' = Append(trace, Ev("loop_enter", Nodes[n].id, "", NoId, 0))
       /\ th' = [th EXCEPT ![t] = Framing(Push(th[t].stack,
                    [NoFrame EXCEPT !.k = "loop", !.node = n, !.tasks = Nodes[n].tasks,
                                    !.phase = "iter_start"]))]
    /\ UNCHANGED <<plan, cfg, pc, error, final_output, fut, steps_outputs,
                   total_steps_executed, agent_results, current_step, metadata, calls,
                   handler_log>>

\* mutant: the condition is never found false
ConditionFalseNever(loop_cfg) == FALSE
\* the condition is given and evaluates to false
ConditionFalse(loop_cfg) ==
    loop_cfg.condition.op # "none" /\ ~Eval(loop_cfg.condition)

\* top of "while True": the iteration's trace event and the pre-check
LoopIterStart(t) ==
    /\ InFrame(t, "loop")
    /\ Top(t).phase = "iter_start"
    /\ LET f == Top(t)
           node == Nodes[f.node]
       IN  /\ trace' = Append(trace, Ev("loop_iter_start", node.id, "", NoId, f.iter_index))
           /\ th' = [th EXCEPT ![t] =
                        IF ~node.loop.do_while /\ EvalRaises(node.loop.condition)
                        THEN Raising(TypeErrorEval)
                        ELSE Framing(SetTop(th[t].stack,
                                IF ~node.loop.do_while /\ ConditionFalse(node.loop)
                                THEN [f EXCEPT !.phase = "finish"]
                                ELSE [f EXCEPT !.phase = "body", !.i = 1, !.res = NoneV]))]
    /\ UNCHANGED <<plan, cfg, pc, error, final_output, fut, steps_outputs,
                   total_steps_executed, agent_results, current_step, metadata, calls,
                   handler_log>>

\* "for child in tasks: result = self._run_node(child)"
LoopBody(t) ==
    /\ InFrame(t, "loop")
    /\ Top(t).phase = "body"
    /\ Top(t).i <= Len(Top(t).tasks)
    /\ LET f == Top(t) IN
       th' = [th EXCEPT ![t] =
                Calling(SetTop(th[t].stack, [f EXCEPT !.i = f.i + 1]), NextChild(f))]
    /\ UNCHANGED <<plan, cfg, pc, error, final_output, fut, steps_outputs, trace,
                   total_steps_executed, agent_results, current_step, metadata, calls,
                   handler_log>>

\* mutant: a repeated result goes unnoticed
IdenticalNever(last_serialized, ser) == FALSE
\* the result repeats the previous iteration's
Identical(last_serialized, ser) == last_serialized # NoSer /\ ser = last_serialized

\* after the body: identical-output check, the counters, the cap, the post-check
LoopIterEnd(t) ==
    /\ InFrame(t, "loop")
    /\ Top(t).phase = "body"
    /\ Top(t).i > Len(Top(t).tasks)
    /\ LET f == Top(t)
           node == Nodes[f.node]
           ser == serialize(f.res)
           iters == f.iters + 1
           iter_index == f.iter_index + 1
           g == [f EXCEPT !.last_serialized = ser, !.iters = iters, !.iter_index = iter_index]
           m == Msg("loop_identical", node.id)
       IN  IF Identical(f.last_serialized, ser)
           THEN /\ trace' = Append(trace, Ev("loop_iter_identical", node.id, "", NoId, f.iter_index))
                /\ add_agent_result(m)
                /\ th' = [th EXCEPT ![t] = Escalating(th[t].stack, m, "loop_break", "")]
           ELSE /\ UNCHANGED <<agent_results, current_step>>
                /\ IF iters >= LoopMaxIters(node)
                   THEN /\ trace' = Append(trace, Ev("loop_max_iters", node.id, "", NoId, iter_index))
                        /\ th' = [th EXCEPT ![t] =
                                    Framing(SetTop(th[t].stack, [g EXCEPT !.phase = "finish"]))]
                   ELSE IF node.loop.do_while /\ EvalRaises(node.loop.condition)
                        THEN /\ UNCHANGED trace
                             /\ th' = [th EXCEPT ![t] = Raising(TypeErrorEval)]
                   ELSE IF node.loop.do_while /\ ConditionFalse(node.loop)
                        THEN /\ trace' = Append(trace,
                                    Ev("loop_condition_false", node.id, "post", NoId, iter_index))
                             /\ th' = [th EXCEPT ![t] =
                                    Framing(SetTop(th[t].stack, [g EXCEPT !.phase = "finish"]))]
                        ELSE /\ trace' = Append(trace,
                                    Ev("loop_condition_true", node.id,
                                       IF node.loop.do_while THEN "post" ELSE "pre", NoId, iter_index))
                             /\ th' = [th EXCEPT ![t] =
                                    Framing(SetTop(th[t].stack, [g EXCEPT !.phase = "iter_start"]))]
    /\ UNCHANGED <<plan, cfg, pc, error, final_output, fut, steps_outputs,
                   total_steps_executed, metadata, calls,
                   handler_log>>

\* after the while: the store under the loop's id, the return, loop_exit
LoopFinish(t) ==
    /\ InFrame(t, "loop")
    /\ Top(t).phase = "finish"
    /\ LET f == Top(t)
           step_id == Nodes[f.node].id
       IN  /\ steps_outputs' = Store(steps_outputs, step_id, f.res)
           /\ trace' = Append(trace, Ev("loop_exit", step_id, "", NoId, 0))
           /\ th' = [th EXCEPT ![t] = Returning(Pop(th[t].stack), f.res)]
    /\ UNCHANGED <<plan, cfg, pc, error, final_output, fut,
                   total_steps_executed, agent_results, current_step, metadata, calls,
                   handler_log>>

(***************************************************************************)
(* _run_agent                                                              *)
(***************************************************************************)
RunNodeAgent(t) ==
    /\ Dispatching(t, "agent_call")
    /\ th' = [th EXCEPT ![t] = Framing(Push(th[t].stack,
                [NoFrame EXCEPT !.k = "agent", !.node = th[t].node, !.phase = "incr_read"]))]
    /\ UNCHANGED <<plan, cfg, pc, error, final_output, fut, steps_outputs, trace,
                   total_steps_executed, agent_results, current_step, metadata, calls,
                   handler_log>>

\* "self.total_steps_executed += 1" is a read followed by a write
AgentIncrRead(t) ==
    /\ InFrame(t, "agent")
    /\ Top(t).phase = "incr_read"
    /\ th' = [th EXCEPT ![t] = Framing(SetTop(th[t].stack,
                [Top(t) EXCEPT !.tmp = total_steps_executed, !.phase = "incr_write"]))]
    /\ UNCHANGED <<plan, cfg, pc, error, final_output, fut, steps_outputs, trace,
                   total_steps_executed, agent_results, current_step, metadata, calls,
                   handler_log>>

AgentIncrWrite(t) ==
    /\ InFrame(t, "agent")
    /\ Top(t).phase = "incr_write"
    /\ total_steps_executed' = Top(t).tmp + 1
    /\ th' = [th EXCEPT ![t] = Framing(SetTop(th[t].stack, [Top(t) EXCEPT !.phase = "resolve"]))]
    /\ UNCHANGED <<plan, cfg, pc, error, final_output, fut, steps_outputs, trace,
                   agent_results, current_step, metadata, calls,
                   handler_log>>

\* node.get("id") or f"step_{self.total_steps_executed}"
StepId(node) ==
    IF node.id # NoId THEN node.id ELSE "step_" \o ToString(total_steps_executed)

\* step_id, the rendering of the parameters, _resolve_agent, agent_start
AgentResolve(t) ==
    /\ InFrame(t, "agent")
    /\ Top(t).phase = "resolve"
    /\ LET f == Top(t)
           node == Nodes[f.node]
           step_id == StepId(node)
           m == Msg("unknown_agent", step_id)
       IN  IF _resolve_agent(node.agent_id)
           THEN /\ trace' = Append(trace, [Ev("agent_start", step_id, "", NoId, 0)
                                            EXCEPT !.params = render(node.parameters)])
                /\ th' = [th EXCEPT ![t] = Framing(SetTop(th[t].stack,
                            [f EXCEPT !.step_id = step_id, !.phase = "run"]))]
                /\ UNCHANGED <<agent_results, current_step>>
           ELSE /\ add_agent_result(m)
                /\ th' = [th EXCEPT ![t] =
                            Escalating(th[t].stack, m, "raise", "RuntimeError: Unknown agent")]
                /\ UNCHANGED trace
    /\ UNCHANGED <<plan, cfg, pc, error, final_output, fut, steps_outputs,
                   total_steps_executed, metadata, calls,
                   handler_log>>

\* mutant: the summary keeps the agent and forgets the result
LastStepNoResult(agent_id, result) ==
    DictV("agent" :> StrV(agent_id) @@ "result" :> NoneV @@ "parsed" :> NoneV)
\* metadata["last_step"] after a successful call
LastStep(agent_id, result) ==
    DictV("agent" :> StrV(agent_id) @@ "result" :> result @@ "parsed" :> NoneV)

\* self.state.dict(): a new mapping holding copies of the history and the counter
dict(history, step) == [agent_results |-> history, current_step |-> step]
\* BaseAgent.run on the mapping it is handed: _convert_legacy_state builds an
\* ExecutionState of its own from it, and add_agent_result(COMPLETED) files
\* the invocation there
run(state, name, step_id) ==
    [agent_results |-> Append(state.agent_results,
            [agent_name |-> name, status |-> "completed", msg |-> Msg("completed", step_id)]),
     current_step |-> state.current_step + 1]
\* mutant: the handler is handed the state itself and its record lands there
StateAfterRunShared(own, handlers) == handlers
\* self.state once agent.run has returned: the handler worked on its copy
StateAfterRun(own, handlers) == own

\* agent.run returns a result: the stores that follow it
AgentRunReturn(t) ==
    /\ InFrame(t, "agent")
    /\ Top(t).phase = "run"
    /\ \E result \in Results :
        LET f == Top(t)
            node == Nodes[f.node]
            own == dict(agent_results, current_step)
            handlers == run(dict(agent_results, current_step), mapping[node.agent_id], f.step_id)
        IN  /\ agent_results' = StateAfterRun(own, handlers).agent_results
            /\ current_step' = StateAfterRun(own, handlers).current_step
            /\ steps_outputs' = (f.step_id :> result) @@ steps_outputs
            /\ trace' = Append(trace, Ev("agent_end", f.step_id, "", NoId, 0))
            /\ metadata' = ("last_step" :> LastStep(node.agent_id, result)) @@ metadata
            /\ handler_log' = Append(handler_log,
                    [id |-> f.step_id, result |-> result, state |-> handlers])
            /\ th' = [th EXCEPT ![t] = Returning(Pop(th[t].stack), result)]
    /\ calls' = calls + 1
    /\ UNCHANGED <<plan, cfg, pc, error, final_output, fut, total_steps_executed>>

\* agent.run raises: the except clause escalates and re-raises
AgentRunRaise(t) ==
    /\ InFrame(t, "agent")
    /\ Top(t).phase = "run"
    /\ LET m == Msg("agent_failed", Top(t).step_id) IN
       /\ add_agent_result(m)
       /\ th' = [th EXCEPT ![t] = Escalating(th[t].stack, m, "raise", "HandlerError")]
    /\ calls' = calls + 1
    /\ UNCHANGED <<plan, cfg, pc, error, final_output, fut, steps_outputs, trace,
                   total_steps_executed, metadata,
                   handler_log>>

(***************************************************************************)
(* _route_to_human_and_stop, second half: the hitl trace event, and what   *)
(* the caller does next                                                    *)
(***************************************************************************)
\* mutant: the loop forgets the result of its body when it halts
LoopBreakAbsent(frame) == [frame EXCEPT !.phase = "finish", !.res = NoneV]
\* "break" after the identical-output escalation: result keeps the body's value
LoopBreak(frame) == [frame EXCEPT !.phase = "finish"]

RouteToHumanTrace(t) ==
    /\ pc = "running"
    /\ th[t].mode = "hitl"
    /\ LET hitl == Append(trace, HitlEv(th[t].msg))
           stack == th[t].stack
       IN  CASE th[t].cont = "raise" ->
                 /\ trace' = hitl
                 /\ th' = [th EXCEPT ![t] = Raising(th[t].exc)]
             [] th[t].cont = "return_none" ->
                 \* _run_branch returns None; _run_node appends branch_exit
                 /\ trace' = Append(hitl, Ev("branch_exit", th[t].msg.id, "", NoId, 0))
                 /\ th' = [th EXCEPT ![t] = Returning(stack, NoneV)]
             [] th[t].cont = "loop_break" ->
                 /\ trace' = hitl
                 /\ th' = [th EXCEPT ![t] =
                            Framing(SetTop(stack, LoopBreak(stack[Len(stack)])))]
             [] OTHER ->
                 \* _run_parallel re-raises: the with block first shuts the pool down
                 /\ trace' = hitl
                 /\ th' = [th EXCEPT ![t] =
                            [Framing(SetTop(stack, [stack[Len(stack)] EXCEPT !.phase = "shutdown"]))
                                EXCEPT !.exc = th[t].exc]]
    /\ UNCHANGED <<plan, cfg, pc, error, final_output, fut, steps_outputs,
                   total_steps_executed, agent_results, current_step, metadata, calls,
                   handler_log>>

(***************************************************************************)
(* _run_parallel: a ThreadPoolExecutor of max_workers threads              *)
(***************************************************************************)
Children(n) == {Nodes[n].tasks[i] : i \in 1..Len(Nodes[n].tasks)}
Finished(c) == fut[c].st \in {"done", "failed"}
\* mutant: every child is filed under the placeholder
CidAnon(c) == "anon"
\* results[cid]: the child's id, or "anon"
Cid(c) == IF Nodes[c].id # NoId THEN Nodes[c].id ELSE "anon"

\* parallel_start, the pool, and the submission of every child
RunNodeParallel(t) ==
    /\ Dispatching(t, "parallel")
    /\ LET n == th[t].node IN
       /\ trace' = Append(trace, Ev("parallel_start", Nodes[n].id, "", NoId, 0))
       /\ fut' = [c \in DOMAIN fut |->
                    IF c \in Children(n) THEN [NoFut EXCEPT !.st = "queued", !.pool = n]
                    ELSE fut[c]]
       /\ th' = [th EXCEPT ![t] = Framing(Push(th[t].stack,
                    [NoFrame EXCEPT !.k = "par", !.node = n, !.tasks = Nodes[n].tasks,
                                    !.phase = "collect"]))]
    /\ UNCHANGED <<plan, cfg, pc, error, final_output, steps_outputs,
                   total_steps_executed, agent_results, current_step, metadata, calls,
                   handler_log>>

\* position of child c in its parent's task list
Position(c) == CHOOSE i \in 1..Len(Nodes[fut[c].pool].tasks) : Nodes[fut[c].pool].tasks[i] = c

\* a pool thread is free for c: fewer than max_workers siblings are running and
\* c is the first of the work queue
WorkerFree(c) ==
    /\ Cardinality({s \in Children(fut[c].pool) : fut[s].st = "running"}) < cfg.max_workers
    /\ \A s \in Children(fut[c].pool) : fut[s].st = "queued" => Position(c) <= Position(s)

\* a pool thread takes child c from the queue and calls _run_node(c)
WorkerStart(c) ==
    /\ pc = "running"
    /\ fut[c].st = "queued"
    /\ WorkerFree(c)
    /\ fut' = [fut EXCEPT ![c].st = "running"]
    /\ th' = [th EXCEPT ![c] = Calling(<<>>, c)]
    /\ UNCHANGED <<plan, cfg, pc, error, final_output, steps_outputs, trace,
                   total_steps_executed, agent_results, current_step, metadata, calls,
                   handler_log>>

\* _run_node(c) returned or raised on the pool thread: the future is set
WorkerDone(c) ==
    /\ pc = "running"
    /\ c # MainThread
    /\ th[c].mode \in {"ret", "exc"}
    /\ fut' = [fut EXCEPT ![c] =
                IF th[c].mode = "ret"
                THEN [@ EXCEPT !.st = "done", !.val = th[c].val]
                ELSE [@ EXCEPT !.st = "failed", !.exc = th[c].exc]]
    /\ th' = [th EXCEPT ![c] = IdleThread]
    /\ UNCHANGED <<plan, cfg, pc, error, final_output, steps_outputs, trace,
                   total_steps_executed, agent_results, current_step, metadata, calls,
                   handler_log>>

\* one turn of "for fut in as_completed(futures)"
ParallelCollect(t) ==
    /\ InFrame(t, "par")
    /\ Top(t).phase = "collect"
    /\ \E c \in Children(Top(t).node) \ Top(t).collected :
        /\ Finished(c)
        /\ LET f == Top(t)
               m == Msg("parallel_failed", Cid(c))
           IN  IF fut[c].st = "done"
               THEN /\ th' = [th EXCEPT ![t] = Framing(SetTop(th[t].stack,
                                [f EXCEPT !.results = (Cid(c) :> fut[c].val) @@ f.results,
                                          !.collected = f.collected \cup {c}]))]
                    /\ UNCHANGED <<agent_results, current_step>>
               ELSE /\ add_agent_result(m)
                    /\ th' = [th EXCEPT ![t] =
                                Escalating(th[t].stack, m, "shutdown", fut[c].exc)]
    /\ UNCHANGED <<plan, cfg, pc, error, final_output, fut, steps_outputs, trace,
                   total_steps_executed, metadata, calls,
                   handler_log>>

\* every future was collected: the aggregate store, parallel_end, the return
ParallelEnd(t) ==
    /\ InFrame(t, "par")
    /\ Top(t).phase = "collect"
    /\ Top(t).collected = Children(Top(t).node)
    /\ LET f == Top(t)
           id == Nodes[f.node].id
       IN  /\ steps_outputs' = Store(steps_outputs, id, DictV(f.results))
           /\ trace' = Append(trace, Ev("parallel_end", id, "", NoId, 0))
           /\ th' = [th EXCEPT ![t] = Returning(Pop(th[t].stack), DictV(f.results))]
    /\ UNCHANGED <<plan, cfg, pc, error, final_output, fut,
                   total_steps_executed, agent_results, current_step, metadata, calls,
                   handler_log>>

\* mutant: the pool is left without waiting, as shutdown(wait=False) would
ShutdownNoWait(n) == TRUE
\* ThreadPoolExecutor.__exit__ is shutdown(wait=True): it returns once every
\* submitted child of the pool has finished
ShutdownWaited(n) == \A c \in Children(n) : Finished(c)

\* leaving the with block on the re-raise: shutdown(wait=True) returns once
\* every submitted child has run to its end
ParallelShutdown(t) ==
    /\ InFrame(t, "par")
    /\ Top(t).phase = "shutdown"
    /\ ShutdownWaited(Top(t).node)
    /\ th' = [th EXCEPT ![t] = Raising(th[t].exc)]
    /\ UNCHANGED <<plan, cfg, pc, error, final_output, fut, steps_outputs, trace,
                   total_steps_executed, agent_results, current_step, metadata, calls,
                   handler_log>>

(***************************************************************************)
(* The plan catalogue: the plans and configurations execute is run on      *)
(***************************************************************************)
\* values of the executor_* settings PlanExecutor.__init__ reads
executor_max_workers == 2
executor_max_iters == 2
executor_global_step_cap == 6

Config(workers, cap) ==
    [max_workers |-> workers, max_iters |-> executor_max_iters, global_step_cap |-> cap]
DefaultConfig == Config(executor_max_workers, executor_global_step_cap)

PathX == <<"state", "metadata", "x">>
PathLast == <<"state", "metadata", "last_step", "result">>
R1 == StrV(ResultNames[1])

Scenario(root, nodes, x, c) == [plan |-> [root |-> root, nodes |-> nodes], x |-> x, cfg |-> c]

A(id) == Leaf(id, "talk_to_document")
B(id) == Leaf(id, "playbook_generator")

SequentialPlans ==
    { <<SeqN("root", <<2, 3>>), A("a"), B("b")>>,
      <<SeqN("root", <<2, 3>>), A("a"), SeqN("s", <<>>)>>,
      <<SeqN("root", <<2, 4>>), SeqN("s", <<3>>), A("a"), B(NoId)>>,
      <<SeqN("root", <<2, 3>>), A("a"), OtherN("u")>>,
      <<SeqN("root", <<2, 3>>), A("a"), Leaf("b", "bogus")>>,
      <<A("a")>> }

DuplicatePlans ==
    { <<SeqN("root", <<2, 3>>), A("a"), B("a")>>,
      <<SeqN("root", <<2, 3>>), A("a"),
        BranchN("b", <<Case(CTrue, <<4>>)>>, FALSE, <<>>), B("a")>>,
      <<SeqN("root", <<2, 3>>), A("a"),
        BranchN("b", <<Case(CFalse, <<>>)>>, TRUE, <<4>>), B("a")>>,
      <<SeqN("root", <<2, 3>>), A("a"),
        KeyBranchN("k", <<"steps", "a">>, <<KCase(StrV("else"), <<4>>)>>), B("a")>> }

BranchPlans ==
    { <<SeqN("root", <<2, 7>>),
        BranchN("b", <<Case(CEq(PathX, IntV(1)), <<3, 4>>), Case(CEq(PathX, IntV(2)), <<5>>)>>,
                TRUE, <<6>>),
        A("c1"), B("c2"), A("c3"), A("e1"), B("z")>>,
      <<SeqN("root", <<2, 7>>),
        BranchN("b", <<Case(CEq(PathX, IntV(1)), <<3>>), Case(CNe(PathX, IntV(0)), <<4>>),
                       Case(CError, <<5>>), Case(NoCond, <<6>>), Case(CNonStr, <<>>)>>,
                FALSE, <<>>),
        A("c1"), B("c2"), A("c3"), A("c4"), B("z")>>,
      <<SeqN("root", <<2, 4>>),
        BranchN("b", <<Case(CEq(PathX, IntV(1)), <<3>>), Case(CEq(PathX, IntV(2)), <<>>)>>,
                TRUE, <<>>),
        A("c1"), B("z")>>,
      <<SeqN("root", <<2, 3>>), A("a"),
        KeyBranchN("k", <<"steps", "a">>,
                   <<KCase(R1, <<4>>), KCase(StrV("else"), <<5>>)>>),
        A("c1"), B("e1")>>,
      <<SeqN("root", <<2, 3>>), A("a"),
        KeyBranchN("k", <<"steps", "a">>, <<KCase(R1, <<4>>)>>), A("c1")>> }

LoopConditions == {CTrue, CFalse, NoCond, CError, CNonStr, CEq(PathLast, R1)}

LoopPlans ==
    { <<LoopN("L", c, dw, n, <<2>>), A("a")>> :
        c \in LoopConditions, dw \in BOOLEAN, n \in 1..MaxN }
    \cup { <<LoopN("L", CTrue, dw, n, <<2, 3>>), A("a"), B("b")>> : dw \in BOOLEAN, n \in 2..MaxN }
    \cup { <<LoopN("L", CTrue, dw, MaxN, <<>>)>> : dw \in BOOLEAN }
    \cup { <<SeqN("root", <<2, 4>>), LoopN("L", CNe(PathLast, R1), dw, MaxN, <<3>>), A("a"), B("z")>> :
            dw \in BOOLEAN }
    \cup { <<LoopDefaultN(NoId, CTrue, FALSE, <<2>>), A("a")>> }
    \* max_iters of zero
    \cup { <<LoopN("Z", CTrue, dw, 0, <<2>>), A("a")>> : dw \in BOOLEAN }
    \* a loop entered once per iteration of the loop around it
    \cup { <<LoopN("L", CTrue, FALSE, 2, <<2>>), LoopN("M", CTrue, FALSE, 2, <<3>>), A("a")>> }

ParallelPlans ==
    { <<ParN("p", <<2, 3>>), A("a"), B("b")>>,
      <<ParN("p", <<2, 4>>), SeqN("s", <<3>>), A("a"), B("b")>>,
      <<ParN("p", <<2, 3>>), A("a"), Leaf("b", "bogus")>>,
      <<ParN("p", <<2, 3>>), A(NoId), B(NoId)>>,
      <<SeqN("root", <<2, 5>>), ParN("p", <<3, 4>>), A("a"), B("b"), A("z")>>,
      <<ParN("p", <<2, 4>>), BranchN("b", <<Case(CTrue, <<3>>)>>, FALSE, <<>>), A("a"),
        OtherN("u")>>,
      <<ParN("p", <<2, 4>>), LoopN("L", NoCond, FALSE, 1, <<3>>), B("c"), OtherN("u")>>,
      <<ParN("p", <<2, 4>>), ParN("q", <<3>>), A("a"), OtherN("u")>> }

\* strings given as parameter "q" of an agent_call
PathNope == <<"state", "metadata", "nope">>
Templates ==
    { <<Ph(PathX, 0, 0)>>,
      <<Lit("value is "), Ph(PathX, 0, 0)>>,
      <<Ph(PathNope, 0, 0)>>,
      <<Lit("v="), Ph(PathNope, 0, 0), Lit(";")>>,
      <<Ph(PathX, 0, 0), Ph(<<"steps", "a">>, 0, 0)>>,
      <<Lit("m="), Ph(<<"state", "metadata">>, 0, 0)>>,
      <<Ph(<<"state", "metadata">>, 0, 0)>>,
      <<Ph(PathX, 1, 0)>>,
      <<Ph(PathX, 1, 1)>>,
      <<Lit("value is "), Ph(PathX, 1, 1)>>,
      <<Lit("plain")>>,
      \* references whose last key does not exist
      <<Ph(<<"steps", "a", "foo">>, 0, 0)>>,
      <<Ph(<<"steps", "nope", "foo">>, 0, 0)>>,
      <<Ph(<<"state", "metadata", "x", "foo">>, 0, 0)>>,
      <<Ph(<<"state", "metadata", "last_step", "result", "foo">>, 0, 0)>> }

TemplatePlans ==
    { <<SeqN("root", <<2, 3>>), A("a"), LeafP("b", "playbook_generator", DictV("q" :> TplV(tp)))>> :
        tp \in Templates }

\* key-dispatch branches whose key resolves to a dict, to nothing, to an int
KeyPlans ==
    { <<SeqN("root", <<2, 3>>), A("a"),
        KeyBranchN("k", key, <<KCase(R1, <<4>>), KCase(StrV("else"), <<5>>)>>),
        A("c1"), B("e1")>> :
        key \in {<<"state", "metadata", "last_step">>, <<"metadata", "nope">>, PathX} }
    \cup { <<SeqN("root", <<2, 3>>), A("a"),
             KeyBranchN("k", <<"metadata", "nope">>, <<KCase(R1, <<4>>)>>), A("c1")>> }

\* plans with a malformed branch specification
MalformedPlans ==
    { <<BranchNoCasesN("m")>>,
      <<SeqN("root", <<2, 3>>), A("a"), BranchNoCasesN("m")>> }

\* three children on a pool of two threads
PoolPlans ==
    { <<ParN("p", <<2, 3, 4>>), Leaf("a", "bogus"), OtherN("u"), A("c")>>,
      <<ParN("p", <<2, 3, 4>>), OtherN("u"), A("a"), OtherN("w")>> }

Scenarios ==
    { Scenario(0, <<>>, 0, DefaultConfig) }
    \cup { Scenario(1, p, 0, DefaultConfig) :
            p \in SequentialPlans \cup DuplicatePlans \cup LoopPlans \cup ParallelPlans \cup PoolPlans
                \cup MalformedPlans \cup KeyPlans }
    \cup { Scenario(1, p, x, DefaultConfig) : p \in BranchPlans, x \in 0..2 }
    \cup { Scenario(1, p, 5, DefaultConfig) : p \in TemplatePlans }
    \* a step cap of two
    \cup { Scenario(1, p, 0, Config(executor_max_workers, 2)) :
            p \in { <<SeqN("root", <<2, 3, 4>>), A("a"), B("b"), A("c")>>,
                    <<ParN("p", <<2, 3>>), A("a"), B("b")>> } }
    \* a step cap of one: the second child of a parallel node meets the cap
    \cup { Scenario(1, <<ParN("p", <<2, 3>>), A("a"), B("b")>>, 0,
                     Config(executor_max_workers, 1)) }

(***************************************************************************)
(* The state after PlanExecutor(state) was constructed for a plan          *)
(***************************************************************************)
InitOf(sc) ==
    /\ plan = sc.plan
    /\ cfg = sc.cfg
    /\ pc = "init"
    /\ error = ""
    /\ final_output = NoneV
    /\ th = [t \in 0..Len(sc.plan.nodes) |-> IdleThread]
    /\ fut = [c \in 1..Len(sc.plan.nodes) |-> NoFut]
    /\ steps_outputs = EmptyFn
    /\ trace = <<>>
    /\ total_steps_executed = 0
    /\ agent_results = <<>>
    /\ current_step = 0
    /\ metadata = ("x" :> IntV(sc.x))
    /\ calls = 0
    /\ handler_log = <<>>

Init == \E sc \in Scenarios : InitOf(sc)

Threads == DOMAIN th

Next ==
    \/ ExecuteInvalid
    \/ ExecuteStart
    \/ ExecuteReturn
    \/ ExecuteRaise
    \/ \E t \in Threads : RunNodeCap(t)
    \/ \E t \in Threads : RunNodeNoop(t)
    \/ \E t \in Threads : RunNodeSequential(t)
    \/ \E t \in Threads : SequentialStep(t)
    \/ \E t \in Threads : RunNodeBranch(t)
    \/ \E t \in Threads : BranchStep(t)
    \/ \E t \in Threads : RunNodeLoop(t)
    \/ \E t \in Threads : LoopIterStart(t)
    \/ \E t \in Threads : LoopBody(t)
    \/ \E t \in Threads : LoopIterEnd(t)
    \/ \E t \in Threads : LoopFinish(t)
    \/ \E t \in Threads : RunNodeAgent(t)
    \/ \E t \in Threads : AgentIncrRead(t)
    \/ \E t \in Threads : AgentIncrWrite(t)
    \/ \E t \in Threads : AgentResolve(t)
    \/ \E t \in Threads : AgentRunReturn(t)
    \/ \E t \in Threads : AgentRunRaise(t)
    \/ \E t \in Threads : RouteToHumanTrace(t)
    \/ \E t \in Threads : RunNodeParallel(t)
    \/ \E t \in Threads : ParallelCollect(t)
    \/ \E t \in Threads : ParallelEnd(t)
    \/ \E t \in Threads : ParallelShutdown(t)
    \/ \E c \in Threads \ {MainThread} : WorkerStart(c)
    \/ \E c \in Threads \ {MainThread} : WorkerDone(c)

Spec == Init /\ [][Next]_vars

\* every thread that can take a step eventually takes one: the interpreter
\* and the pool threads keep running, and handlers always return or raise
FairSpec == Spec /\ WF_vars(Next)

(***************************************************************************)
(* A caller that calls execute again on the same PlanExecutor: execute     *)
(* assigns none of the fields __init__ set                                 *)
(***************************************************************************)
\* number of execute() calls the caller makes on one executor
MaxExecutes == 2

ExecuteCalls == Cardinality({i \in 1..Len(trace) : trace[i].event = "start_plan"})

ExecuteAgain ==
    /\ pc \in {"returned", "raised"}
    /\ ExecuteCalls < MaxExecutes
    /\ pc' = "init"
    /\ error' = ""
    /\ final_output' = NoneV
    /\ fut' = [c \in DOMAIN fut |-> NoFut]
    /\ UNCHANGED <<plan, cfg, th, steps_outputs, trace,
                   total_steps_executed, agent_results, current_step, metadata, calls,
                   handler_log>>

AgainScenarios ==
    { Scenario(0, <<>>, 0, DefaultConfig),
      Scenario(1, <<SeqN("root", <<2, 3>>), A("a"), OtherN("u")>>, 0, DefaultConfig),
      Scenario(1, <<A("a")>>, 0, Config(executor_max_workers, 1)),
      Scenario(1, <<BranchN("b", <<Case(CTrue, <<2>>)>>, FALSE, <<>>), A("a")>>, 0, DefaultConfig),
      Scenario(1, <<LoopN("L", CTrue, FALSE, 1, <<2>>), A("a")>>, 0, DefaultConfig),
      Scenario(1, <<SeqN("root", <<2, 4>>), ParN("p", <<3>>), A("a"), Leaf("b", "bogus")>>, 0,
               DefaultConfig) }

InitAgain == \E sc \in AgainScenarios : InitOf(sc)

NextAgain ==
    \/ Next
    \/ ExecuteAgain

SpecAgain == InitAgain /\ [][NextAgain]_vars

(***************************************************************************)
(* The re-run after a HITL escalation (app.py): the snapshot state.dict()  *)
(* of the run, with one metadata key set, is handed to ExecutionState,    *)
(* and the plan is executed on a new PlanExecutor built with that state    *)
(***************************************************************************)
\* what the validator of current_step reads as total_steps: the field is
\* declared after current_step, so values.get("total_steps", 0) is the default
ValidatorTotalSteps == 0
ValueErrorStep == "ValueError: Current step cannot exceed total steps"

Rerun ==
    /\ pc = "returned"
    /\ \E i \in 1..Len(trace) : trace[i].event = "hitl"
    /\ IF current_step > ValidatorTotalSteps
       THEN /\ pc' = "raised"
            /\ error' = ValueErrorStep
            /\ UNCHANGED <<final_output, fut, steps_outputs, trace, total_steps_executed,
                           metadata>>
       ELSE /\ pc' = "init"
            /\ error' = ""
            /\ final_output' = NoneV
            /\ fut' = [c \in DOMAIN fut |-> NoFut]
            /\ steps_outputs' = EmptyFn
            /\ trace' = <<>>
            /\ total_steps_executed' = 0
            /\ \E set \in BOOLEAN :
                metadata' = IF set THEN ("review_status" :> StrV("approved")) @@ metadata
                            ELSE metadata
    /\ UNCHANGED <<plan, cfg, th, agent_results, current_step, calls, handler_log>>

RerunScenarios ==
    AgainScenarios
    \cup { Scenario(1, <<SeqN("root", <<2, 3>>), A("a"), BranchNoCasesN("m")>>, 0, DefaultConfig),
           Scenario(1, <<LoopN("L", CTrue, FALSE, 2, <<2>>), A("a")>>, 0, DefaultConfig),
           Scenario(1, <<SeqN("root", <<2, 3>>), A("a"), B("b")>>, 0,
                    Config(executor_max_workers, 1)) }

InitRerun == \E sc \in RerunScenarios : InitOf(sc)

NextRerun ==
    \/ Next
    \/ Rerun

SpecRerun == InitRerun /\ [][NextRerun]_vars

(***************************************************************************)
(* The plan tree and the trace, as the properties below read them          *)
(***************************************************************************)
Range(q) == {q[i] : i \in 1..Len(q)}
Max(S) == CHOOSE m \in S : \A k \in S : k <= m

RECURSIVE Flatten(_)
Flatten(lists) == IF lists = <<>> THEN <<>> ELSE Head(lists) \o Flatten(Tail(lists))

\* every child list of a node, in document order: tasks, case lists, else list
ChildSeq(node) ==
    node.tasks
    \o Flatten([k \in 1..Len(node.branch.cases) |-> node.branch.cases[k].tasks])
    \o node.branch.else
    \o Flatten([k \in 1..Len(node.cases) |-> node.cases[k].tasks])

RECURSIVE Subtree(_)
Subtree(n) == {n} \cup UNION {Subtree(k) : k \in Range(ChildSeq(Nodes[n]))}
TreeNodes == IF plan.root = 0 THEN {} ELSE Subtree(plan.root)
Kind(n) == NodeKind(Nodes[n])
IdOf(n) == Nodes[n].id

HasDuplicateIds ==
    \E m, n \in TreeNodes : m # n /\ IdOf(m) # NoId /\ IdOf(m) = IdOf(n)

RECURSIVE DocLeaves(_)
RECURSIVE DocLeavesOf(_)
\* the agent_call leaves below n, in document order
DocLeaves(n) ==
    IF Kind(n) = "agent_call" THEN <<n>> ELSE DocLeavesOf(ChildSeq(Nodes[n]))
DocLeavesOf(list) ==
    IF list = <<>> THEN <<>> ELSE DocLeaves(Head(list)) \o DocLeavesOf(Tail(list))
Leaves == IF plan.root = 0 THEN <<>> ELSE DocLeaves(plan.root)

RECURSIVE LastNode(_)
\* the last node below n in document order
LastNode(n) ==
    IF ChildSeq(Nodes[n]) = <<>> THEN n
    ELSE LastNode(ChildSeq(Nodes[n])[Len(ChildSeq(Nodes[n]))])

\* the key a leaf's result is filed under when the leaves run once, in order
LeafKey(n) ==
    IF IdOf(n) # NoId THEN IdOf(n)
    ELSE "step_" \o ToString(CHOOSE i \in 1..Len(Leaves) : Leaves[i] = n)

\* what the latest handler invocation filed under key returned
LastLogged(key) ==
    LET idx == {i \in 1..Len(handler_log) : handler_log[i].id = key} IN
    IF idx = {} THEN NoneV ELSE handler_log[Max(idx)].result
\* the results of the handler invocations filed under key, in order
Logged(key) ==
    SelectSeq(handler_log, LAMBDA e : e.id = key)

\* the events of the trace with the given name and id
Events(name, id) ==
    {i \in 1..Len(trace) : trace[i].event = name /\ trace[i].id = id}
\* the hitl events whose message quotes id
Hitl(id) == {i \in 1..Len(trace) : trace[i].event = "hitl" /\ trace[i].detail.id = id}
\* those the node with this id raised itself, not the pool it was a child of
OwnHitl(id) == {i \in Hitl(id) : trace[i].detail.kind # "parallel_failed"}
HitlEvents == {i \in 1..Len(trace) : trace[i].event = "hitl"}

PureSequential ==
    /\ plan.root # 0
    /\ \A n \in TreeNodes : Kind(n) \notin {"branch", "loop", "parallel"}

(***************************************************************************)
(* C1: in every plan in which two nodes of the tree carry the same id,     *)
(* wherever they sit (task list, case list of a branch, else list),        *)
(* execute raises a validation error before any node runs and the trace    *)
(* stays empty.                                                            *)
(***************************************************************************)
C1_DuplicateIdsRejected ==
    HasDuplicateIds =>
        \/ pc = "init"
        \/ pc = "raised" /\ error = "PlanValidationError" /\ trace = <<>> /\ calls = 0

(***************************************************************************)
(* C2: for a plan without branch, loop or parallel node whose leaves all   *)
(* succeed, the final output is the result of the last agent_call leaf in  *)
(* document order.                                                         *)
(***************************************************************************)
C2_LastLeafOriginal ==
    (pc = "returned" /\ PureSequential /\ Leaves # <<>>) =>
        final_output = LastLogged(LeafKey(Leaves[Len(Leaves)]))

\* C2 as amended: the final output is the result of the last agent_call leaf
\* when that leaf is the last node of the plan in document order, and absent
\* when an empty sequential node or a node of unknown kind is the last node.
C2_SequentialComposition ==
    (pc = "returned" /\ PureSequential) =>
        final_output = IF Kind(LastNode(plan.root)) = "agent_call"
                       THEN LastLogged(LeafKey(LastNode(plan.root)))
                       ELSE NoneV

C2_Witness ==
    /\ pc = "returned"
    /\ PureSequential
    /\ Len(Leaves) >= 2
    /\ Kind(LastNode(plan.root)) = "agent_call"
    /\ final_output = LastLogged(LeafKey(Leaves[Len(Leaves)]))
    /\ final_output # LastLogged(LeafKey(Leaves[1]))

(***************************************************************************)
(* C3: after execute returns for a valid plan, every node id of the plan   *)
(* tree, for a node of any kind, is a key of Step Outputs, except the ids  *)
(* of leaves inside an aborted subtree.                                    *)
(***************************************************************************)
\* n lies in a subtree whose root escalated to HITL
InAbortedSubtree(n) ==
    \E m \in TreeNodes : n \in Subtree(m) /\ IdOf(m) # NoId /\ Hitl(IdOf(m)) # {}

ListNodes(list) == UNION {Subtree(c) : c \in Range(list)}
CaseNodes(n, k) == ListNodes(Nodes[n].branch.cases[k].tasks)
ElseNodes(n) == ListNodes(Nodes[n].branch.else)
BodyNodes(n) ==
    ElseNodes(n) \cup UNION {CaseNodes(n, k) : k \in 1..Len(Nodes[n].branch.cases)}

\* a condition whose value no step of a run changes
StableCond(c) == c.op \in {"none", "const", "error", "nonstr"} \/ c.path = PathX
\* the cases of n whose condition is given and true
TrueCases(n) ==
    {k \in 1..Len(Nodes[n].branch.cases) :
        Nodes[n].branch.cases[k].when.op # "none" /\ Eval(Nodes[n].branch.cases[k].when)}

\* an explicit branch of a valid plan, entered once, whose conditions are stable
ExplicitBranch(n) ==
    /\ ~HasDuplicateIds
    /\ Nodes[n].branch.present
    /\ IdOf(n) # NoId
    /\ \A k \in 1..Len(Nodes[n].branch.cases) : StableCond(Nodes[n].branch.cases[k].when)
    /\ Cardinality(Events("branch_enter", IdOf(n))) = 1
Exited(n) == Events("branch_exit", IdOf(n)) # {}

\* the leaves among S whose agent_start is in the trace
StartedIn(S) ==
    {m \in S : Kind(m) = "agent_call" /\ Events("agent_start", IdOf(m)) # {}}
\* the ids of the agent_start events of leaves among S, in trace order
StartOrder(S) ==
    LET ids == {IdOf(m) : m \in {x \in S : Kind(x) = "agent_call"}}
        started == SelectSeq(trace, LAMBDA e : e.event = "agent_start" /\ e.id \in ids)
    IN  [i \in 1..Len(started) |-> started[i].id]
\* the ids of the leaves of a child list, in document order
DocOrder(list) == [i \in 1..Len(DocLeavesOf(list)) |-> IdOf(DocLeavesOf(list)[i])]
IsPrefix(p, q) == Len(p) <= Len(q) /\ \A i \in 1..Len(p) : p[i] = q[i]

RECURSIVE ResultOf(_)
\* the result of a node built of sequential nodes, leaves and unknown kinds
ResultOf(n) ==
    CASE Kind(n) = "agent_call" -> LastLogged(LeafKey(n))
      [] Kind(n) = "sequential" /\ Nodes[n].tasks # <<>> ->
            ResultOf(Nodes[n].tasks[Len(Nodes[n].tasks)])
      [] OTHER -> NoneV
ListResult(list) == IF list = <<>> THEN NoneV ELSE ResultOf(list[Len(list)])

\* the value the innermost caller on the main thread last received
Delivered ==
    IF th[MainThread].stack = <<>> THEN th[MainThread].val ELSE Top(MainThread).res
\* the node n has just returned to its caller on the main thread: to execute,
\* or to the sequential node that has n as the child it ran last
JustExited(n) ==
    \/ th[MainThread].mode = "ret" /\ th[MainThread].stack = <<>> /\ plan.root = n
    \/ /\ th[MainThread].mode = "frame"
       /\ Top(MainThread).k = "seq"
       /\ Top(MainThread).i > 1
       /\ Top(MainThread).tasks[Top(MainThread).i - 1] = n

\* the branch n ran exactly the child list, in order, and filed its last result
RanOnly(n, list) ==
    /\ StartedIn(BodyNodes(n)) \subseteq ListNodes(list)
    /\ IsPrefix(StartOrder(BodyNodes(n)), DocOrder(list))
    /\ OwnHitl(IdOf(n)) = {}
    /\ Exited(n) =>
        /\ StartOrder(BodyNodes(n)) = DocOrder(list)
        /\ IdOf(n) \in DOMAIN steps_outputs
        /\ steps_outputs[IdOf(n)] = ListResult(list)
    /\ JustExited(n) => Delivered = ListResult(list)

\* the branch n escalated once with the given message, ran no child, filed
\* nothing under its id, returned None and did not raise
EscalatedOnly(n, kind) ==
    /\ StartedIn(BodyNodes(n)) = {}
    /\ Cardinality(OwnHitl(IdOf(n))) <= 1
    /\ \A i \in OwnHitl(IdOf(n)) : trace[i].detail.kind = kind
    /\ Exited(n) =>
        /\ Cardinality(OwnHitl(IdOf(n))) = 1
        /\ IdOf(n) \notin DOMAIN steps_outputs
    /\ JustExited(n) => Delivered = NoneV
    /\ pc = "raised" => Exited(n)

(***************************************************************************)
(* C4: in an explicit branch with exactly one true case, the branch runs   *)
(* the children of that case in order and no other child, and its result,  *)
(* filed under the branch id, is the result of that case's last child.     *)
(***************************************************************************)
C4_SingleMatchRunsThatCase ==
    \A n \in TreeNodes :
        (ExplicitBranch(n) /\ Cardinality(TrueCases(n)) = 1) =>
            RanOnly(n, Nodes[n].branch.cases[CHOOSE k \in TrueCases(n) : TRUE].tasks)

C4_Witness ==
    \E n \in TreeNodes :
        /\ ExplicitBranch(n)
        /\ TrueCases(n) = {2}
        /\ Exited(n)
        /\ steps_outputs[IdOf(n)] # NoneV
        /\ Len(StartOrder(BodyNodes(n))) = 1

(***************************************************************************)
(* C5: in an explicit branch with more than one true case, the executor    *)
(* escalates to HITL once, runs no child of any case, returns an absent    *)
(* result and does not raise.                                              *)
(***************************************************************************)
C5_MultipleMatchesEscalate ==
    \A n \in TreeNodes :
        (ExplicitBranch(n) /\ Cardinality(TrueCases(n)) > 1) =>
            EscalatedOnly(n, "branch_multiple")

C5_Witness ==
    \E n \in TreeNodes :
        /\ ExplicitBranch(n)
        /\ Cardinality(TrueCases(n)) = 2
        /\ JustExited(n)
        /\ Cardinality(OwnHitl(IdOf(n))) = 1

(***************************************************************************)
(* C6: in an explicit branch with no true case, an else list that is       *)
(* present is run sequentially and its last result is the branch result;   *)
(* without one the executor escalates to HITL, returns an absent result    *)
(* and does not raise.                                                     *)
(***************************************************************************)
C6_NoMatchOriginal ==
    \A n \in TreeNodes :
        (ExplicitBranch(n) /\ TrueCases(n) = {}) =>
            IF Nodes[n].branch.has_else
            THEN RanOnly(n, Nodes[n].branch.else)
            ELSE EscalatedOnly(n, "branch_no_match")

(***************************************************************************)
(* Loops, as C7 and C8 read them                                           *)
(***************************************************************************)
\* a loop of a valid plan, entered once, whose condition no step changes
StableLoop(n) ==
    /\ ~HasDuplicateIds
    /\ Kind(n) = "loop"
    /\ IdOf(n) # NoId
    /\ StableCond(Nodes[n].loop.condition)
    /\ Cardinality(Events("loop_enter", IdOf(n))) = 1
LoopDone(n) == Events("loop_exit", IdOf(n)) # {}
\* the condition of the loop holds whenever it is evaluated (or there is none)
AlwaysTrue(n) ==
    Nodes[n].loop.condition.op = "none" \/ Eval(Nodes[n].loop.condition)
\* how often the body of a stable loop has been started
BodyRuns(n) ==
    IF ~Nodes[n].loop.do_while /\ ~AlwaysTrue(n)
    THEN 0
    ELSE Cardinality(Events("loop_iter_start", IdOf(n)))
\* the leaves with an id that every run of the body calls once
BodyLeaves(n) ==
    {m \in Range(Nodes[n].tasks) : Kind(m) = "agent_call" /\ IdOf(m) # NoId}
\* the results of the body, one per finished run: those of its last child
BodyResults(n) ==
    LET tasks == Nodes[n].tasks
        last == tasks[Len(tasks)]
    IN  IF tasks # <<>> /\ last \in BodyLeaves(n)
        THEN [i \in 1..Len(Logged(IdOf(last))) |-> Logged(IdOf(last))[i].result]
        ELSE [i \in 1..BodyRuns(n) |-> NoneV]
\* a body this section can read the results of: leaves with ids, or nothing
PlainBody(n) == Range(Nodes[n].tasks) = BodyLeaves(n)

\* no run of the body serializes as the run before it did
NoRepeat(n) ==
    \A i \in 1..(Len(BodyResults(n)) - 1) :
        serialize(BodyResults(n)[i]) # serialize(BodyResults(n)[i + 1])
\* every run of the body returned the same value
SameValue(n) ==
    \A i, j \in 1..Len(BodyResults(n)) : BodyResults(n)[i] = BodyResults(n)[j]

\* the loop ran its body k times and stopped through the iteration cap
EndedByCap(n, k) ==
    /\ BodyRuns(n) = k
    /\ \A m \in BodyLeaves(n) : Len(Logged(IdOf(m))) = k
    /\ Cardinality(Events("loop_max_iters", IdOf(n))) = 1
    /\ Events("loop_iter_identical", IdOf(n)) = {}
    /\ OwnHitl(IdOf(n)) = {}
\* the loop ran its body twice and stopped through the no-progress HITL path
EndedByNoProgress(n) ==
    /\ BodyRuns(n) = 2
    /\ \A m \in BodyLeaves(n) : Len(Logged(IdOf(m))) = 2
    /\ Cardinality(Events("loop_iter_identical", IdOf(n))) = 1
    /\ Cardinality(OwnHitl(IdOf(n))) = 1
    /\ \A i \in OwnHitl(IdOf(n)) : trace[i].detail.kind = "loop_identical"
    /\ Events("loop_max_iters", IdOf(n)) = {}
    /\ Events("loop_condition_false", IdOf(n)) = {}

(***************************************************************************)
(* C7: a loop with max_iters = N >= 1 whose condition is true at every     *)
(* evaluation runs its body exactly N times, whatever the body and the     *)
(* check mode, stops through the cap (loop_max_iters) and records no HITL  *)
(* escalation for the loop.                                                *)
(***************************************************************************)
C7_CapOriginal ==
    \A n \in TreeNodes :
        ( /\ StableLoop(n) /\ PlainBody(n) /\ LoopDone(n)
          /\ Nodes[n].loop.has_max_iters /\ Nodes[n].loop.max_iters >= 1
          /\ AlwaysTrue(n) ) =>
            EndedByCap(n, Nodes[n].loop.max_iters)

\* C7 as amended: a loop with max_iters = N >= 1 whose condition is true at
\* every evaluation, and whose body never returns a result that serializes as
\* the result of the iteration before it, runs its body exactly N times, stops
\* through the cap and records no HITL escalation for the loop.
C7_CapWhenResultsChange ==
    \A n \in TreeNodes :
        ( /\ StableLoop(n) /\ PlainBody(n) /\ LoopDone(n)
          /\ Nodes[n].loop.has_max_iters /\ Nodes[n].loop.max_iters >= 1
          /\ AlwaysTrue(n)
          /\ NoRepeat(n) ) =>
            EndedByCap(n, Nodes[n].loop.max_iters)

C7_Witness ==
    \E n \in TreeNodes :
        /\ StableLoop(n) /\ PlainBody(n) /\ LoopDone(n)
        /\ Nodes[n].loop.has_max_iters /\ Nodes[n].loop.max_iters = MaxN
        /\ Nodes[n].loop.do_while
        /\ AlwaysTrue(n)
        /\ NoRepeat(n)
        /\ Len(BodyResults(n)) = MaxN
        /\ BodyLeaves(n) # {}

(***************************************************************************)
(* C8: a loop whose body returns the same value in every iteration runs    *)
(* its body exactly twice and stops through the no-progress HITL path (one *)
(* loop_iter_identical event, one hitl event), not through the cap or the  *)
(* condition.                                                              *)
(***************************************************************************)
C8_NoProgressOriginal ==
    \A n \in TreeNodes :
        (StableLoop(n) /\ PlainBody(n) /\ LoopDone(n) /\ SameValue(n)) =>
            EndedByNoProgress(n)

\* C8 as amended: a loop whose iteration bound is at least 2, whose condition
\* is true at every evaluation and whose body returns the same value in every
\* iteration runs its body exactly twice and stops through the no-progress
\* HITL path, not through the cap or the condition.
C8_NoProgressAfterTwo ==
    \A n \in TreeNodes :
        ( /\ StableLoop(n) /\ PlainBody(n) /\ LoopDone(n) /\ SameValue(n)
          /\ (IF Nodes[n].loop.has_max_iters
              THEN Nodes[n].loop.max_iters ELSE cfg.max_iters) >= 2
          /\ AlwaysTrue(n) ) =>
            EndedByNoProgress(n)

C8_Witness ==
    \E n \in TreeNodes :
        /\ StableLoop(n) /\ PlainBody(n) /\ LoopDone(n) /\ SameValue(n)
        /\ Nodes[n].loop.has_max_iters /\ Nodes[n].loop.max_iters = MaxN
        /\ AlwaysTrue(n)
        /\ Len(BodyResults(n)) = 2
        /\ BodyLeaves(n) # {}
        /\ steps_outputs[IdOf(n)] # NoneV

(***************************************************************************)
(* Parallel nodes, as C9 and C10 read them                                 *)
(***************************************************************************)
\* a parallel node with an id, in a valid plan, started once, whose children
\* carry ids
ParallelNode(p) ==
    /\ ~HasDuplicateIds
    /\ Kind(p) = "parallel"
    /\ IdOf(p) # NoId
    /\ \A c \in Children(p) : IdOf(c) # NoId
    /\ Cardinality(Events("parallel_start", IdOf(p))) = 1
\* every child of p returned and nothing in the run was escalated
AllSucceeded(p) ==
    /\ Events("parallel_end", IdOf(p)) # {}
    /\ \A c \in Children(p) : fut[c].st = "done"
    /\ HitlEvents = {}
\* what the child c returned: for a leaf, what its handler returned
ChildResult(c) ==
    IF Kind(c) = "agent_call" THEN LastLogged(IdOf(c)) ELSE fut[c].val
\* the mapping from each child id of p to that child's result
ChildMapping(p) ==
    DictV([id \in {IdOf(c) : c \in Children(p)} |->
            ChildResult(CHOOSE c \in Children(p) : IdOf(c) = id)])
AggregateStored(p) ==
    IdOf(p) \in DOMAIN steps_outputs /\ steps_outputs[IdOf(p)] = ChildMapping(p)
ChildStored(c) ==
    IdOf(c) \in DOMAIN steps_outputs /\ steps_outputs[IdOf(c)] = ChildResult(c)
\* steps_outputs.get(id of c) is the result of c: a missing entry reads as None
ChildReadsBack(c) ==
    IF IdOf(c) \in DOMAIN steps_outputs
    THEN steps_outputs[IdOf(c)] = ChildResult(c)
    ELSE ChildResult(c) = NoneV

C9_WitnessOtherKinds ==
    \E p \in TreeNodes :
        /\ ParallelNode(p) /\ AllSucceeded(p)
        /\ \E c \in Children(p) : Kind(c) \in {"branch", "loop"} /\ ChildResult(c) # NoneV

(***************************************************************************)
(* C10: when exactly one child of a parallel node fails, execute raises    *)
(* and the trace of the run holds exactly one hitl event, which names the  *)
(* failing child's id.  Stated for children that are agent_call leaves.    *)
(***************************************************************************)
C10_OneHitlForFailedChild ==
    \A p \in TreeNodes :
        ( /\ ParallelNode(p)
          /\ \A c \in Children(p) : Kind(c) = "agent_call"
          /\ pc \in {"returned", "raised"}
          /\ \A c \in Children(p) : Finished(c)
          /\ Cardinality({c \in Children(p) : fut[c].st = "failed"}) = 1 ) =>
            /\ pc = "raised"
            /\ Cardinality(HitlEvents) = 1
            /\ \A i \in HitlEvents :
                trace[i].detail.id = IdOf(CHOOSE c \in Children(p) : fut[c].st = "failed")

(***************************************************************************)
(* The global step cap and the failure paths, as C11 to C14 read them      *)
(***************************************************************************)
CapError == "RuntimeError: Global step cap exceeded"
\* the entries of the state's history that name the HumanAssistant
HumanEntries ==
    {i \in 1..Len(agent_results) : agent_results[i].agent_name = "HumanAssistant"}

(***************************************************************************)
(* C11: once the step counter has reached the ceiling, the dispatch of any *)
(* further node, also of a child of a parallel node, makes execute fail    *)
(* fatally and not through HITL: no thread escalates the cap error, and a  *)
(* run that ends with the cap error has neither a hitl event nor a         *)
(* HumanAssistant entry that a parallel node wrote for a failed child.     *)
(***************************************************************************)
C11_CapFailsWithoutHitl ==
    /\ \A t \in Threads : th[t].mode = "hitl" => th[t].exc # CapError
    /\ (pc = "raised" /\ error = CapError) =>
        /\ \A i \in HitlEvents : trace[i].detail.kind # "parallel_failed"
        /\ \A i \in HumanEntries : agent_results[i].msg.kind # "parallel_failed"

\* the exception an agent_call raises, and the escalation that goes with it
AgentErrors == {"RuntimeError: Unknown agent", "HandlerError"}
EscalationOf(e) ==
    IF e = "HandlerError" THEN "agent_failed" ELSE "unknown_agent"
\* the failure e of an agent_call is on record: a failed HumanAssistant entry
\* in the history and a hitl event in the trace, both with the same message
OnRecord(e) ==
    \E i \in HitlEvents, j \in HumanEntries :
        /\ trace[i].detail.kind = EscalationOf(e)
        /\ agent_results[j].msg = Msg(trace[i].detail.kind, trace[i].detail.id)
        /\ agent_results[j].status = "failed"

(***************************************************************************)
(* C12: when an agent_call cannot be dispatched or its handler raises, the *)
(* history has a failed HumanAssistant entry and the trace a hitl event    *)
(* for the failure before the error leaves the call, on whichever thread;  *)
(* execute then raises and the trace holds no end_plan event.              *)
(***************************************************************************)
C12_AgentFailureRecorded ==
    /\ \A t \in Threads :
        (th[t].mode = "exc" /\ th[t].exc \in AgentErrors) => OnRecord(th[t].exc)
    /\ \A c \in DOMAIN fut :
        (fut[c].st = "failed" /\ fut[c].exc \in AgentErrors) => OnRecord(fut[c].exc)
    /\ (pc = "raised" /\ error \in AgentErrors) =>
        /\ OnRecord(error)
        /\ Events("end_plan", IdOf(plan.root)) = {}
    /\ pc = "returned" =>
        \A i \in HitlEvents : trace[i].detail.kind \notin {"agent_failed", "unknown_agent"}

C12_Witness ==
    /\ pc = "raised"
    /\ error = "RuntimeError: Unknown agent"
    /\ OnRecord(error)
    /\ Cardinality(HitlEvents) = 1
    /\ calls = 1

C12_WitnessHandler ==
    /\ pc = "raised"
    /\ error = "HandlerError"
    /\ OnRecord(error)

\* the escalations of control-flow ambiguity: branches and loops
AmbiguityKinds ==
    {"branch_multiple", "branch_no_match", "branch_invalid", "branch_no_case",
     "loop_identical"}
Ambiguous == {i \in HitlEvents : trace[i].detail.kind \in AmbiguityKinds}
\* the nodes that come after n in the task list of a sequential node
LaterSiblings(n) ==
    UNION { {q.tasks[j] : j \in {k \in 1..Len(q.tasks) :
                \E i \in 1..Len(q.tasks) : q.tasks[i] = n /\ i < k}} :
            q \in {Nodes[m] : m \in {x \in TreeNodes : Kind(x) = "sequential"}} }
\* the positions of the agent_start events of the leaf m
Starts(m) == Events("agent_start", IdOf(m))
\* every leaf among the later siblings of n started after position i of the
\* trace, and these leaves started in the order the task list declares
SiblingsRanAfter(n, i) ==
    LET later == {m \in LaterSiblings(n) : Kind(m) = "agent_call" /\ IdOf(m) # NoId} IN
    /\ \A m \in later : Starts(m) # {} /\ \A k \in Starts(m) : k > i
    /\ \A m1, m2 \in later : m1 < m2 => Max(Starts(m1)) < Max(Starts(m2))

(***************************************************************************)
(* C13: when a branch escalates for ambiguity or a loop for no progress,   *)
(* execute does not raise: unless a handler fails or the step cap is met   *)
(* the run returns, its trace ends with end_plan, and the later siblings   *)
(* of the escalated node ran after the escalation, in declared order.      *)
(***************************************************************************)
C13_AmbiguityDoesNotRaise ==
    ( /\ ~HasDuplicateIds
      /\ pc \in {"returned", "raised"}
      /\ Ambiguous # {}
      /\ HitlEvents = Ambiguous
      /\ error \notin {CapError, "TypeError: unhashable type"} ) =>
        /\ pc = "returned"
        /\ trace[Len(trace)].event = "end_plan"
        /\ \A n \in TreeNodes :
            \A i \in Ambiguous :
                (IdOf(n) # NoId /\ trace[i].detail.id = IdOf(n)) => SiblingsRanAfter(n, i)

C13_Witness ==
    /\ ~HasDuplicateIds
    /\ pc = "returned"
    /\ \E n \in TreeNodes, i \in Ambiguous :
        /\ Kind(n) = "branch"
        /\ trace[i].detail.id = IdOf(n)
        /\ \E m \in LaterSiblings(n) : Starts(m) # {}

C13_WitnessLoop ==
    /\ ~HasDuplicateIds
    /\ pc = "returned"
    /\ \E n \in TreeNodes, i \in Ambiguous :
        /\ Kind(n) = "loop"
        /\ trace[i].detail.id = IdOf(n)
        /\ \E m \in LaterSiblings(n) : Starts(m) # {}

\* a condition whose evaluation errors or that is no expression at all
Erroneous(c) == c.op \in {"error", "nonstr"}

(***************************************************************************)
(* C14: every value given as a branch case condition or as a loop          *)
(* condition, also one that is not a well-formed expression or whose       *)
(* evaluation errors, evaluates to false, and no exception leaves execute  *)
(* because of it: the case it guards is never run, the loop it guards      *)
(* stops at its first check, and execute never raises the evaluation       *)
(* error.                                                                  *)
(***************************************************************************)
C14_ConditionErrorsFailClosed ==
    /\ pc = "raised" => error # TypeErrorEval
    /\ ~HasDuplicateIds =>
        /\ \A n \in TreeNodes :
            Nodes[n].branch.present =>
                \A k \in 1..Len(Nodes[n].branch.cases) :
                    Erroneous(Nodes[n].branch.cases[k].when) => StartedIn(CaseNodes(n, k)) = {}
        /\ \A n \in TreeNodes :
            (Kind(n) = "loop" /\ IdOf(n) # NoId /\ Erroneous(Nodes[n].loop.condition)) =>
                /\ Cardinality(Events("loop_iter_start", IdOf(n))) <= 1
                /\ ~Nodes[n].loop.do_while => StartedIn(ListNodes(Nodes[n].tasks)) = {}

(***************************************************************************)
(* Rendering of parameters                                                 *)
(***************************************************************************)
\* the value a placeholder refers to: the value at the path written in it
Resolved(p) == get_value(p.path)
TextForm(val) == IF val.t = "dict" THEN json_dumps(val) ELSE str(val)

RECURSIVE MixedText(_)
MixedText(parts) ==
    IF parts = <<>> THEN ""
    ELSE (IF Head(parts).ph THEN TextForm(Resolved(Head(parts))) ELSE Head(parts).text)
            \o MixedText(Tail(parts))

WholePlaceholder(parts) == Len(parts) = 1 /\ parts[1].ph

RECURSIVE Rendered(_)
Rendered(value) ==
    IF value.t = "tpl"
    THEN IF WholePlaceholder(value.v) THEN Resolved(value.v[1]) ELSE StrV(MixedText(value.v))
    ELSE IF value.t = "dict" THEN DictV([k \in DOMAIN value.v |-> Rendered(value.v[k])])
    ELSE value

\* the agent calls whose parameters have just been rendered
JustRendered == {t \in Threads : InFrame(t, "agent") /\ Top(t).phase = "run"}
StartParams(t) ==
    {trace[i].params : i \in {j \in 1..Len(trace) :
        trace[j].event = "agent_start" /\ trace[j].id = Top(t).step_id}}

\* C15: a parameter that is exactly one placeholder renders to the value at
\* its path with its native type; any other string renders to a string in
\* which every placeholder is replaced by the text form of the value at its
\* path, "None" when the path resolves to nothing; rendering never raises
C15_RenderContract ==
    \A t \in JustRendered :
        /\ (\A k \in DOMAIN Nodes[Top(t).node].parameters.v :
                LET s == Nodes[Top(t).node].parameters.v[k]
                IN  s.t = "tpl" /\ WholePlaceholder(s.v) => s.v[1].trail = 0)
            => StartParams(t) = {Rendered(Nodes[Top(t).node].parameters)}
        /\ metadata["x"] = IntV(5) =>
            /\ Nodes[Top(t).node].parameters = DictV("q" :> TplV(<<Ph(PathX, 0, 0)>>))
                => StartParams(t) = {DictV("q" :> IntV(5))}
            /\ Nodes[Top(t).node].parameters
                    = DictV("q" :> TplV(<<Lit("value is "), Ph(PathX, 0, 0)>>))
                => StartParams(t) = {DictV("q" :> StrV("value is 5"))}

\* the part of C15 about placeholders written without blanks
Unpadded(value) ==
    value.t = "dict" /\ \A k \in DOMAIN value.v :
        value.v[k].t = "tpl" =>
            \A i \in 1..Len(value.v[k].v) : value.v[k].v[i].lead = 0 /\ value.v[k].v[i].trail = 0
C15_UnpaddedRenderContract ==
    \A t \in JustRendered :
        Unpadded(Nodes[Top(t).node].parameters) =>
            StartParams(t) = {Rendered(Nodes[Top(t).node].parameters)}

(***************************************************************************)
(* scripts/run_plan.py                                                     *)
(***************************************************************************)
\* the exit status of the process: run_plan calls execute with no handler
\* around it, so an exception of execute ends the interpreter with status 1
ExitCode == IF pc = "raised" THEN 1 ELSE 0
ProcessEnded == pc \in {"returned", "raised"}

\* C16: the entry point exits non-zero exactly when the plan fails
\* structural validation, and with zero for every other outcome
\* (runs ended by the TypeError of a condition that is not a string set aside)
C16_ExitCodeOnlyForValidation ==
    ProcessEnded /\ error # TypeErrorEval => (ExitCode # 0 <=> error = "PlanValidationError")

(***************************************************************************)
(* Repeated execute() calls on one executor                                *)
(***************************************************************************)
\* C17: every execute() call starts from an empty trace, empty Step Outputs
\* and a zero step counter
C17_ExecuteStartsFresh ==
    pc = "init" =>
        /\ trace = <<>>
        /\ steps_outputs = EmptyFn
        /\ total_steps_executed = 0

(***************************************************************************)
(* Step Outputs over a run                                                 *)
(***************************************************************************)
\* C18: Step Outputs is append-only during a run: a step never removes a key
\* and never replaces the value of a key by a different value
C18_StepOutputsAppendOnly ==
    [][\A k \in DOMAIN steps_outputs :
        k \in DOMAIN steps_outputs' /\ ValEq(steps_outputs'[k], steps_outputs[k])]_vars

(***************************************************************************)
(* Termination and the iteration bound of loops                            *)
(***************************************************************************)
\* max(1, max_iters) of a loop node, from the plan document and the config
BodyBound(n) ==
    LET N == IF Nodes[n].loop.has_max_iters THEN Nodes[n].loop.max_iters ELSE cfg.max_iters
    IN  IF N > 1 THEN N ELSE 1
\* the iterations begun since the loop with this id was last entered
ItersSinceEnter(id) ==
    {i \in Events("loop_iter_start", id) : \A e \in Events("loop_enter", id) : e < i}
    \ {i \in Events("loop_iter_start", id) :
            \E e \in Events("loop_enter", id) : e > i}
LoopFrames ==
    {f \in UNION {Range(th[t].stack) : t \in Threads} : f.k = "loop"}
\* the body run in progress is run number iters + 1 of this entry
LoopBodiesBounded ==
    /\ \A f \in LoopFrames : f.phase = "body" => f.iters + 1 <= BodyBound(f.node)
    /\ ~HasDuplicateIds =>
        \A n \in TreeNodes :
            Kind(n) = "loop" /\ IdOf(n) # NoId =>
                Cardinality(ItersSinceEnter(IdOf(n))) <= BodyBound(n)
Terminated == pc \in {"returned", "raised"}

\* C19: execute terminates (returns or raises), and every loop node runs its
\* body at most max(1, max_iters) times per entry into the loop
C19_TerminatesWithBoundedLoops == <>Terminated /\ []LoopBodiesBounded

\* a loop with max_iters = 0 that ran its body once, in a run that returned
C19_Witness ==
    /\ pc = "returned"
    /\ \E n \in TreeNodes :
        /\ Kind(n) = "loop" /\ Nodes[n].loop.has_max_iters /\ Nodes[n].loop.max_iters = 0
        /\ Cardinality(Events("loop_iter_start", IdOf(n))) = 1
        /\ Events("agent_end", "a") # {}

\* a loop that was entered twice and ran its body twice in its second entry
C19_WitnessSecondEntry ==
    /\ pc = "returned"
    /\ \E n \in TreeNodes :
        /\ Kind(n) = "loop" /\ Cardinality(Events("loop_enter", IdOf(n))) = 2
        /\ Cardinality(ItersSinceEnter(IdOf(n))) = 2

(***************************************************************************)
(* The work queue of a parallel node after a failure                       *)
(***************************************************************************)
\* C20: once a child of a parallel node has failed, no child of that node
\* that had not begun executing begins executing
C20_QueuedNeverRunAfterFailure ==
    [][\A c \in DOMAIN fut :
        (fut[c].st = "queued" /\ fut'[c].st = "running") =>
            \A s \in Children(fut[c].pool) : fut[s].st # "failed"]_vars

(***************************************************************************)
(* The global step cap and the worker pool                                 *)
(***************************************************************************)
\* C21: in every interleaving of parallel children, the number of handler
\* invocations of a run never exceeds the configured global step cap
C21_StepCapUnderConcurrency == calls <= cfg.global_step_cap

(***************************************************************************)
(* The two records of a HITL escalation                                    *)
(***************************************************************************)
FailedHumanEntries == {i \in HumanEntries : agent_results[i].status = "failed"}
\* the threads between add_agent_result and trace.append of an escalation
MidEscalation == {t \in Threads : th[t].mode = "hitl"}
EscalationMessages ==
    {agent_results[i].msg : i \in HumanEntries}
        \cup {[kind |-> trace[i].detail.kind, id |-> trace[i].detail.id] : i \in HitlEvents}

\* C22 as stated: in every reachable state the number of hitl trace events
\* equals the number of failed HumanAssistant entries of the history
C22_HitlCountsOriginal ==
    Cardinality(HitlEvents) = Cardinality(FailedHumanEntries)

\* C22, amended: every HumanAssistant entry is a failed one, and for every
\* message the history holds as many entries as the trace holds hitl events
\* plus the escalations of that message that are between their two appends;
\* so the two counts are equal whenever no thread is inside an escalation
C22_HitlCountsOutsideEscalation ==
    /\ FailedHumanEntries = HumanEntries
    /\ \A m \in EscalationMessages :
        Cardinality({i \in HumanEntries : agent_results[i].msg = m})
            = Cardinality({i \in HitlEvents : trace[i].detail.kind = m.kind
                                                /\ trace[i].detail.id = m.id})
              + Cardinality({t \in MidEscalation : th[t].msg = m})
    /\ MidEscalation = {} => Cardinality(HitlEvents) = Cardinality(FailedHumanEntries)

\* a run that ended after two escalations
C22_Witness ==
    /\ pc = "raised"
    /\ Cardinality(HitlEvents) = 2
    /\ Cardinality(FailedHumanEntries) = 2

\* two pool threads inside an escalation at once
C22_WitnessConcurrent == Cardinality(MidEscalation) = 2

(***************************************************************************)
(* Malformed branch specifications                                         *)
(***************************************************************************)
\* a branch dict with no case list on a node with no dispatch key
MalformedBranch(n) ==
    Nodes[n].branch.present /\ ~Nodes[n].branch.has_cases /\ Nodes[n].branch_key = <<>>

\* C23: a plan with a malformed branch specification is rejected by execute
\* with a validation error before any side effect: the trace stays empty, no
\* handler is invoked and the state is unchanged
C23_MalformedRejected ==
    (\E n \in TreeNodes : MalformedBranch(n)) =>
        \/ pc = "init"
        \/ /\ pc = "raised" /\ error = "PlanValidationError"
           /\ trace = <<>> /\ calls = 0
           /\ agent_results = <<>> /\ current_step = 0 /\ DOMAIN metadata = {"x"}

(***************************************************************************)
(* References to keys that do not exist                                    *)
(***************************************************************************)
\* walking the keys of a path through mappings only: [ok, val]
RECURSIVE KeyWalk(_, _)
KeyWalk(cur, parts) ==
    IF parts = <<>> THEN [ok |-> TRUE, val |-> cur]
    ELSE IF cur.t = "dict" /\ Head(parts) \in DOMAIN cur.v
         THEN KeyWalk(cur.v[Head(parts)], Tail(parts))
         ELSE [ok |-> FALSE, val |-> NoneV]
\* the reference names a key that the referenced value does not have
NamesMissingKey(path) ==
    /\ Len(path) >= 2
    /\ \/ path[1] = "state" /\ ~KeyWalk(StateObj, Tail(path)).ok
       \/ path[1] = "steps" /\ ~KeyWalk(DictV(steps_outputs), Tail(path)).ok
\* the parameter q of the call is one placeholder, written without blanks
WholeReference(n) ==
    /\ "q" \in DOMAIN Nodes[n].parameters.v
    /\ Nodes[n].parameters.v["q"].t = "tpl"
    /\ WholePlaceholder(Nodes[n].parameters.v["q"].v)
    /\ Nodes[n].parameters.v["q"].v[1].trail = 0
ReferencePath(n) == Nodes[n].parameters.v["q"].v[1].path

\* C24: a reference state.<path> or steps.<id>.<path> that names a key which
\* does not exist (unknown step id, or an intermediate value that is not a
\* mapping, included) resolves to the absent value
C24_MissingKeyIsAbsent ==
    \A t \in JustRendered :
        WholeReference(Top(t).node) /\ NamesMissingKey(ReferencePath(Top(t).node)) =>
            StartParams(t) = {DictV("q" :> NoneV)}

(***************************************************************************)
(* Re-running after a HITL escalation                                      *)
(***************************************************************************)
\* C25: the snapshot of the state taken after a run that ended with a HITL
\* escalation can be used to construct a new ExecutionState, and execute of
\* the same plan on a new executor with that state starts normally
C25_RerunStartsNormally == ~(pc = "raised" /\ error = ValueErrorStep)

(***************************************************************************)
(* Key-dispatch branches                                                   *)
(***************************************************************************)
KeyBranches == {n \in TreeNodes : Kind(n) = "branch" /\ ~Nodes[n].branch.present}
KeyValue(n) == get_value(KeyPath(Nodes[n].branch_key))
UnhashableError == "TypeError: unhashable type"

\* C26: whatever the dispatch key resolves to (absent, scalar, structured), a
\* key-dispatch branch never raises: it runs the case whose label equals the
\* value, else the default list, else it escalates and returns nothing
C26_KeyDispatchNeverRaises ==
    /\ pc = "raised" => error # UnhashableError
    /\ \A n \in KeyBranches :
        (~HasDuplicateIds /\ Exited(n) /\ OwnHitl(IdOf(n)) # {}) =>
            /\ \A k \in 1..Len(Nodes[n].cases) : StartedIn(ListNodes(Nodes[n].cases[k].tasks)) = {}
            /\ IdOf(n) \in DOMAIN steps_outputs => steps_outputs[IdOf(n)] = NoneV

(***************************************************************************)
(* The result of a loop                                                    *)
(***************************************************************************)
\* a loop whose body results can be read off the handler log: the body is
\* empty, or ends with a leaf that has an id, or ends with such a loop
RECURSIVE Readable(_)
Readable(n) ==
    LET tasks == Nodes[n].tasks IN
    \/ tasks = <<>>
    \/ tasks # <<>> /\ tasks[Len(tasks)] \in BodyLeaves(n)
    \/ tasks # <<>> /\ Kind(tasks[Len(tasks)]) = "loop" /\ Readable(tasks[Len(tasks)])
\* the result of the last run of the body: that of its last child
RECURSIVE LastBodyResult(_)
LastBodyResult(n) ==
    LET tasks == Nodes[n].tasks
        last == tasks[Len(tasks)]
    IN  IF tasks = <<>> THEN NoneV
        ELSE IF Kind(last) = "loop" THEN LastBodyResult(last)
        ELSE IF Logged(IdOf(last)) = <<>> THEN NoneV
        ELSE Logged(IdOf(last))[Len(Logged(IdOf(last)))].result
\* the loop was entered and has been left as often as it was entered
LoopSettled(n) ==
    /\ ~HasDuplicateIds
    /\ Kind(n) = "loop" /\ IdOf(n) # NoId /\ Readable(n)
    /\ Events("loop_enter", IdOf(n)) # {}
    /\ Cardinality(Events("loop_exit", IdOf(n))) = Cardinality(Events("loop_enter", IdOf(n)))

\* C27: however a loop stops (condition false, iteration cap, no-progress
\* detection), its result is the result of the last body execution that ran,
\* absent if the body never ran, and a loop with an id has that result stored
\* under its id in Step Outputs
C27_LoopResultIsLastBody ==
    \A n \in TreeNodes :
        /\ LoopSettled(n) =>
            /\ IdOf(n) \in DOMAIN steps_outputs
            /\ steps_outputs[IdOf(n)] = LastBodyResult(n)
        /\ (~HasDuplicateIds /\ Kind(n) = "loop" /\ Readable(n) /\ JustExited(n)) =>
            Delivered = LastBodyResult(n)

\* a loop that stopped on no-progress detection and returned its body's result
C27_Witness ==
    \E n \in TreeNodes :
        /\ LoopSettled(n) /\ JustExited(n)
        /\ Events("loop_iter_identical", IdOf(n)) # {}
        /\ Delivered # NoneV
        /\ steps_outputs[IdOf(n)] = Delivered
\* loops that stopped through the cap, through a false condition after a body
\* run, and through a condition that was false on entry
C27_WitnessCap ==
    \E n \in TreeNodes :
        LoopSettled(n) /\ Events("loop_max_iters", IdOf(n)) # {} /\ steps_outputs[IdOf(n)] # NoneV
C27_WitnessConditionFalse ==
    \E n \in TreeNodes :
        /\ LoopSettled(n) /\ Events("loop_condition_false", IdOf(n)) # {}
        /\ steps_outputs[IdOf(n)] # NoneV
C27_WitnessNeverRan ==
    \E n \in TreeNodes :
        /\ LoopSettled(n) /\ Nodes[n].tasks # <<>> /\ ~Nodes[n].loop.do_while
        /\ Cardinality(Events("loop_iter_start", IdOf(n))) = 1
        /\ Events("loop_max_iters", IdOf(n)) = {}
        /\ steps_outputs[IdOf(n)] = NoneV

\* C28: a loop that halts on no-progress detection yields an absent result
\* to its parent
C28_NoProgressYieldsAbsent ==
    \A n \in TreeNodes :
        ( /\ ~HasDuplicateIds /\ Kind(n) = "loop" /\ IdOf(n) # NoId
          /\ JustExited(n)
          /\ Events("loop_iter_identical", IdOf(n)) # {} ) =>
            Delivered = NoneV

(***************************************************************************)
(* The two check modes of a loop                                           *)
(***************************************************************************)
HasCondition(f) == Nodes[f.node].loop.condition.op # "none"
HoldsNow(f) == Eval(Nodes[f.node].loop.condition)
\* the condition events of a loop, by the phase they record
ConditionEvents(id, phase) ==
    {i \in 1..Len(trace) :
        /\ trace[i].event \in {"loop_condition_true", "loop_condition_false"}
        /\ trace[i].id = id /\ trace[i].detail.kind = phase}
\* a loop on the main thread only: nothing runs between its steps
Sequentially == \A n \in TreeNodes : Kind(n) # "parallel"

\* C29: in check-before mode the condition is evaluated before every body
\* execution, the first included, so a condition that is false on entry gives
\* no body execution; in check-after mode the body runs at least once, the
\* condition is evaluated only after a body execution and the loop goes on
\* only if it is true
C29_CheckModes ==
    /\ \A f \in LoopFrames :
        \* a body run is about to start
        /\ ( /\ Sequentially /\ HasCondition(f) /\ ~Nodes[f.node].loop.do_while
             /\ f.phase = "body" /\ f.i = 1 ) => HoldsNow(f)
        \* the next iteration is about to start after a body run
        /\ ( /\ Sequentially /\ HasCondition(f) /\ Nodes[f.node].loop.do_while
             /\ f.phase = "iter_start" /\ f.iters >= 1 ) => HoldsNow(f)
    /\ \A n \in TreeNodes :
        (StableLoop(n) /\ LoopDone(n)) =>
            /\ (~Nodes[n].loop.do_while /\ ~AlwaysTrue(n)) =>
                    /\ StartedIn(ListNodes(Nodes[n].tasks)) = {}
                    /\ Cardinality(Events("loop_iter_start", IdOf(n))) = 1
            /\ (Nodes[n].loop.do_while /\ PlainBody(n)) =>
                    /\ \A m \in BodyLeaves(n) : Len(Logged(IdOf(m))) >= 1
                    /\ ~AlwaysTrue(n) => \A m \in BodyLeaves(n) : Len(Logged(IdOf(m))) = 1
            /\ IF Nodes[n].loop.do_while
               THEN ConditionEvents(IdOf(n), "pre") = {}
               ELSE ConditionEvents(IdOf(n), "post") = {}

\* a check-before loop left without a body run, its condition false on entry
C29_Witness ==
    \E n \in TreeNodes :
        /\ StableLoop(n) /\ LoopDone(n) /\ ~Nodes[n].loop.do_while /\ ~AlwaysTrue(n)
        /\ Nodes[n].tasks # <<>> /\ StartedIn(ListNodes(Nodes[n].tasks)) = {}
\* a check-after loop with a false condition that ran its body once
C29_WitnessCheckAfter ==
    \E n \in TreeNodes :
        /\ StableLoop(n) /\ LoopDone(n) /\ Nodes[n].loop.do_while /\ ~AlwaysTrue(n)
        /\ PlainBody(n) /\ Nodes[n].loop.max_iters >= 2
        /\ \A m \in BodyLeaves(n) : Len(Logged(IdOf(m))) = 1
        /\ ConditionEvents(IdOf(n), "post") # {}

(***************************************************************************)
(* Declared order in the child lists of sequential, branch and loop nodes  *)
(***************************************************************************)
\* the child lists that are run in order
ChildLists ==
    UNION {
        (IF Kind(n) \in {"sequential", "loop"} THEN {Nodes[n].tasks} ELSE {})
        \cup (IF Kind(n) = "branch"
              THEN {Nodes[n].branch.cases[k].tasks : k \in 1..Len(Nodes[n].branch.cases)}
                   \cup {Nodes[n].branch.else}
                   \cup {Nodes[n].cases[k].tasks : k \in 1..Len(Nodes[n].cases)}
              ELSE {}) : n \in TreeNodes }
IdLeaves(S) == {m \in S : Kind(m) = "agent_call" /\ IdOf(m) # NoId}
Before(name, id, i) == {e \in Events(name, id) : e < i}
\* at trace position i the leaf l has started and not ended
InProgressAt(l, i) ==
    Cardinality(Before("agent_start", IdOf(l), i)) # Cardinality(Before("agent_end", IdOf(l), i))

\* every start of a leaf below child k comes when nothing below an earlier
\* child j of the list is running, and after as many runs of a leaf j as
\* there are starts of the leaf k so far
StartsInOrder ==
    \A list \in ChildLists : \A j, k \in 1..Len(list) :
        j < k =>
            /\ \A lk \in IdLeaves(Subtree(list[k])) : \A i \in Events("agent_start", IdOf(lk)) :
                \A lj \in IdLeaves(Subtree(list[j])) : ~InProgressAt(lj, i)
            /\ ({list[j], list[k]} \subseteq IdLeaves(TreeNodes)) =>
                \A i \in Events("agent_start", IdOf(list[k])) :
                    Cardinality(Before("agent_end", IdOf(list[j]), i))
                        >= Cardinality(Before("agent_start", IdOf(list[k]), i + 1))

\* the list frame an agent call was made from, and the children before it
Caller(t) == th[t].stack[Len(th[t].stack) - 1]
EarlierSiblings(t) ==
    IF Len(th[t].stack) >= 2 /\ Caller(t).k \in {"seq", "branch", "loop"}
    THEN {Caller(t).tasks[j] : j \in 1..(Caller(t).i - 2)}
    ELSE {}
\* the leaf that ran last before the call, if the child before it is a leaf
PreviousLeaf(t) ==
    IF Len(th[t].stack) >= 2 /\ Caller(t).k \in {"seq", "branch", "loop"} /\ Caller(t).i >= 3
    THEN {Caller(t).tasks[Caller(t).i - 2]} \cap IdLeaves(TreeNodes)
    ELSE {}

\* when the parameters of a child have been rendered, the outputs of the
\* leaves before it are in Step Outputs, last_step is that of the leaf just
\* before it, and the rendering is the one of the state that holds them
EffectsVisible ==
    \A t \in JustRendered :
        /\ \A j \in IdLeaves(EarlierSiblings(t)) :
            /\ Logged(IdOf(j)) # <<>>
            /\ IdOf(j) \in DOMAIN steps_outputs
            /\ steps_outputs[IdOf(j)] = LastLogged(IdOf(j))
        /\ \A j \in PreviousLeaf(t) :
            /\ "last_step" \in DOMAIN metadata
            /\ metadata["last_step"] = LastStep(Nodes[j].agent_id, LastLogged(IdOf(j)))
        /\ Unpadded(Nodes[Top(t).node].parameters) =>
            StartParams(t) = {Rendered(Nodes[Top(t).node].parameters)}

\* a key-dispatch branch that follows the leaf its key refers to selects by
\* that leaf's result
ConditionsSeeEarlier ==
    \A list \in ChildLists : \A j, k \in 1..Len(list) :
        ( /\ j < k /\ list[j] \in IdLeaves(TreeNodes) /\ list[k] \in KeyBranches
          /\ Nodes[list[k]].branch_key = <<"steps", IdOf(list[j])>>
          /\ Events("branch_exit", IdOf(list[k])) # {} ) =>
            \A c \in 1..Len(Nodes[list[k]].cases) :
                LET started == StartedIn(ListNodes(Nodes[list[k]].cases[c].tasks)) # {}
                    label == Nodes[list[k]].cases[c].label
                IN  (ValEq(label, LastLogged(IdOf(list[j]))) => started)
                    /\ (started =>
                            ValEq(label, LastLogged(IdOf(list[j]))) \/ ValEq(label, StrV("else")))

\* C30: in a sequential node and in the child lists run by branch and loop
\* nodes the children execute strictly in declared order, child k+1 starting
\* only after child k has finished, and the parameters and conditions of
\* child k+1 are resolved against Step Outputs and state that hold every
\* effect of the children before it
C30_DeclaredOrder ==
    ~HasDuplicateIds => StartsInOrder /\ EffectsVisible /\ ConditionsSeeEarlier

\* the second child of a list started with a parameter built from the first
\* child's output
C30_Witness ==
    \E t \in JustRendered :
        /\ IdLeaves(EarlierSiblings(t)) # {}
        /\ Nodes[Top(t).node].parameters
            = DictV("q" :> TplV(<<Ph(PathX, 0, 0), Ph(<<"steps", "a">>, 0, 0)>>))
        /\ StartParams(t) = {DictV("q" :> StrV("5" \o LastLogged("a").v))}
\* a key-dispatch branch ran the case named by the result of the leaf before it
C30_WitnessCondition ==
    \E n \in KeyBranches :
        /\ Nodes[n].branch_key = <<"steps", "a">> /\ Events("branch_exit", IdOf(n)) # {}
        /\ \E c \in 1..Len(Nodes[n].cases) :
            /\ ValEq(Nodes[n].cases[c].label, LastLogged("a"))
            /\ StartedIn(ListNodes(Nodes[n].cases[c].tasks)) # {}

(***************************************************************************)
(* What a successful agent call leaves behind                              *)
(***************************************************************************)
\* the thread whose handler returns in this step, if any
HandlerReturns(t) ==
    /\ InFrame(t, "agent") /\ Top(t).phase = "run"
    /\ th'[t] # th[t]
    /\ Len(handler_log') = Len(handler_log) + 1
\* the result the handler returned in this step
Returned == handler_log'[Len(handler_log')].result
\* the effects of the call of thread t, in the state the call leaves
CallEffects(t) ==
    LET i == Top(t).step_id
        agent_id == Nodes[Top(t).node].agent_id
    IN  /\ i \in DOMAIN steps_outputs' /\ steps_outputs'[i] = Returned
        /\ trace'[Len(trace')].event = "agent_end" /\ trace'[Len(trace')].id = i
        /\ \E s \in 1..Len(trace) : trace'[s].event = "agent_start" /\ trace'[s].id = i
        /\ "last_step" \in DOMAIN metadata'
        /\ metadata'["last_step"].t = "dict"
        /\ metadata'["last_step"].v["agent"] = StrV(agent_id)
        /\ metadata'["last_step"].v["result"] = Returned
\* every agent_end of an id has an agent_start of its own before it
EndsFollowStarts ==
    \A i \in 1..Len(trace) :
        trace[i].event = "agent_end" =>
            Cardinality(Before("agent_start", trace[i].id, i))
                >= Cardinality(Before("agent_end", trace[i].id, i + 1))

\* C31: after an agent_call leaf with id i whose handler returns r, Step
\* Outputs[i] = r, the trace holds an agent_start for i followed by an
\* agent_end for i, and metadata.last_step records the call's agent id and r;
\* an agent_end for i never appears without an earlier agent_start for i
C31_AgentCallEffects ==
    /\ []EndsFollowStarts
    /\ [][\A t \in Threads : HandlerReturns(t) => CallEffects(t)]_vars

\* the leaf a has returned and its effects are in place
C31_Witness ==
    /\ Events("agent_end", "a") # {}
    /\ Logged("a") # <<>>
    /\ "a" \in DOMAIN steps_outputs /\ steps_outputs["a"] = LastLogged("a")
    /\ "last_step" \in DOMAIN metadata
    /\ metadata["last_step"].v["result"] = LastLogged("a")

(***************************************************************************)
(* Branch decisions in the trace                                           *)
(***************************************************************************)
\* the frames of branch nodes with an id whose child list has begun to run
RunningBranchFrames ==
    {f \in UNION {Range(th[t].stack) : t \in Threads} :
        f.k = "branch" /\ f.i >= 2 /\ Nodes[f.node].id # NoId}
\* a branch_select event of the node after its latest branch_enter
SelectLogged(f) ==
    LET id == Nodes[f.node].id IN
    \E e \in Events("branch_select", id) : \A b \in Events("branch_enter", id) : b < e

\* C32: whenever a branch node runs a child list (a matched explicit case, a
\* matched key case, or the else list of either form) a branch_select event
\* with the branch's id is in the trace before the first child of the list runs
C32_BranchSelectLogged ==
    ~HasDuplicateIds => \A f \in RunningBranchFrames : SelectLogged(f)

(***************************************************************************)
(* Blanks inside the braces of a placeholder                               *)
(***************************************************************************)
\* every parameter of the mapping is a string that is exactly one placeholder
OnlyWholePlaceholders(value) ==
    value.t = "dict" /\ \A k \in DOMAIN value.v :
        value.v[k].t = "tpl" /\ WholePlaceholder(value.v[k].v)
\* the same mapping with the placeholders written without blanks
RECURSIVE WithoutBlanks(_)
WithoutBlanks(value) ==
    IF value.t = "tpl"
    THEN TplV([i \in 1..Len(value.v) |->
                IF value.v[i].ph THEN Ph(value.v[i].path, 0, 0) ELSE value.v[i]])
    ELSE IF value.t = "dict" THEN DictV([k \in DOMAIN value.v |-> WithoutBlanks(value.v[k])])
    ELSE value

\* C33: for a string parameter that is exactly one placeholder, rendering
\* does not depend on the blanks inside the braces: with any number of
\* blanks before and after the path it gives the same native-typed value as
\* the placeholder written without blanks
C33_BlanksDoNotMatter ==
    \A t \in JustRendered :
        OnlyWholePlaceholders(Nodes[Top(t).node].parameters) =>
            StartParams(t) = {Rendered(WithoutBlanks(Nodes[Top(t).node].parameters))}

(***************************************************************************)
(* No parallel work outlives its parallel node                             *)
(***************************************************************************)
\* the children submitted to a pool that have not finished yet
Unfinished == {c \in DOMAIN fut : fut[c].st \in {"queued", "running"}}
\* control is still inside the parallel node n on some thread
InsidePool(n) ==
    \E t \in Threads : \E i \in 1..Len(th[t].stack) :
        th[t].stack[i].k = "par" /\ th[t].stack[i].node = n
\* the pool threads that are at work
Working == {c \in Threads \ {MainThread} : th[c].mode # "idle"}

\* C34: when execute returns or raises no work started by a parallel node is
\* still running: every child submitted to the worker pool has finished
\* before control leaves the parallel node, also when a child failed
C34_NoWorkOutlivesPool ==
    /\ \A c \in Unfinished : InsidePool(fut[c].pool)
    /\ \A c \in Working : fut[c].st = "running"
    /\ pc \in {"returned", "raised"} => Unfinished = {} /\ Working = {}

\* execute raised for a failed child, and a sibling of it finished its call
\* after the failure had been escalated
C34_Witness ==
    /\ pc = "raised"
    /\ \E h \in HitlEvents : \E e \in 1..Len(trace) :
        /\ trace[h].detail.kind = "parallel_failed"
        /\ h < e /\ trace[e].event = "agent_end"
    /\ \E c \in DOMAIN fut : fut[c].st = "done"
    /\ \E c \in DOMAIN fut : fut[c].st = "failed"
\* the pool is being shut down while a child is still at work
C34_WitnessWaiting ==
    \E t \in Threads :
        /\ InFrame(t, "par") /\ Top(t).phase = "shutdown"
        /\ \E c \in Children(Top(t).node) : fut[c].st = "running"

(***************************************************************************)
(* What handlers and agent calls change in the execution state             *)
(***************************************************************************)
\* a thread begins an escalation in this step
EscalationBegins == \E t \in Threads : th'[t].mode = "hitl" /\ th[t].mode # "hitl"
\* metadata differs at most at last_step
OnlyLastStepWritten ==
    /\ DOMAIN metadata' = DOMAIN metadata \cup {"last_step"}
    /\ \A k \in DOMAIN metadata \ {"last_step"} : metadata'[k] = metadata[k]
\* no escalation has begun in the run so far
NoEscalation == HitlEvents = {} /\ \A t \in Threads : th[t].mode # "hitl"

====
